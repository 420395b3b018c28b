------------------------------ MODULE MCServices ------------------------------
(* The long-running services on small instances, one lane each: an editor       *)
(* session with the server or the proxy, the mapper and the store, the analysis *)
(* cache, the daemons of a workspace.  A run takes one lane and leaves the      *)
(* state of the others as it began.                                             *)
EXTENDS Proxy, AnalysisCache, Daemon

VARIABLE lane

vars == <<lane, sessionVars, buffer, cache, dm>>

MCEnds == {"editor", "front", "back", "gopls"}
MCPeer == [editor |-> "front", front |-> "editor", back |-> "gopls", gopls |-> "back"]

MCSizes == <<1, 2>>

Session(m, edits, asks, cancels, gopls, ends) ==
    [mode |-> m, edits |-> edits, asks |-> asks, cancels |-> cancels,
     gopls |-> gopls, ends |-> ends]

Quiet == Session("server", 0, 0, 0, "answers", "open")

MCSessions ==
    {Session("server", 3, 0, 0, "answers", "open"),
     Session("server", 0, 1, 1, "answers", "shutdown"),
     Session("server", 1, 1, 1, "answers", "garble"),
     Session("proxy", 2, 0, 0, "answers", "open"),
     Session("proxy", 0, 2, 1, "answers", "open"),
     Session("proxy", 0, 1, 1, "exits", "open"),
     Session("proxy", 0, 0, 0, "asks", "garble"),
     Session("proxy", 0, 0, 0, "answers", "shutdown"),
     Session("proxy", 0, 1, 1, "answers", "garble"),
     Quiet}

Init ==
    /\ lane \in {"session", "buffer", "cache", "daemon"}
    /\ SessionInit /\ BufferInit /\ CacheInit /\ DmInit
    /\ (lane = "session") = (ed.plan # Quiet)
    /\ lane # "cache" => cache.source = 1 /\ cache.disk = <<>>

Next ==
    /\ \/ lane = "session" /\ SessionNext /\ UNCHANGED <<buffer, cache, dm>>
       \/ lane = "buffer" /\ BufferNext /\ UNCHANGED <<sessionVars, cache, dm>>
       \/ lane = "cache" /\ CacheNext /\ UNCHANGED <<sessionVars, buffer, dm>>
       \/ lane = "daemon" /\ DmNext /\ UNCHANGED <<sessionVars, buffer, cache>>
    /\ UNCHANGED lane

Spec == Init /\ [][Next]_vars /\ SessionFairness /\ CacheFairness
===============================================================================
