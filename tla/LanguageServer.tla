---------------------------- MODULE LanguageServer ----------------------------
(* An editor session with the standalone language server (internal/lsp/server): *)
(* the editor at one end of a JSON-RPC connection, the server's handlers at the *)
(* other, each message in a goroutine of its own, the document store, the       *)
(* debounce timer and the analysis runs it starts.                              *)
(*                                                                              *)
(*   ed      the editor (external): what it has open, how far the handshake is, *)
(*           and how many edits and requests it made of those it will make;    *)
(*   docs    the server's document store;                                       *)
(*   srv     the server's fields: svc is set by initialize, gen counts the      *)
(*           schedules, timer is the generation the debounce timer is armed for *)
(*           (0 when it is not);                                                *)
(*   runs    the analyses the timer started that have not returned;             *)
(*   shown   for each document, the version and the text behind the diagnostics *)
(*           last published; seen is the overlay of the last run that published *)
(*           and failed the generations whose analysis returned an error.       *)
EXTENDS Connection, Documents

CONSTANT Sessions     \* a set of bounds of which a session takes one: how many edits,
                      \* feature requests and cancellations the editor makes, how it
                      \* ends the session if it does, and how gopls behaves

VARIABLES ed, docs, srv, runs, shown

lsVars == <<ed, docs, srv, runs, shown>>

Uninitialized == [svc |-> FALSE, shutdown |-> FALSE, gen |-> 0, timer |-> 0]

LsInit ==
    /\ \E s \in Sessions :
        ed = [phase |-> "start", bufs |-> NewStore, edits |-> 0, asks |-> 0,
              cancels |-> 0, plan |-> s]
    /\ docs = NewStore
    /\ srv = Uninitialized
    /\ runs = {}
    /\ shown = [last |-> [u \in URIs |-> Closed], seen |-> <<>>, failed |-> {}]

-------------------------------------------------------------------------------
(* The editor (external): initialize first, then edits and requests in any      *)
(* order, a shutdown request and exit, the stream closed at the end.  It may    *)
(* cancel a request and it may send a frame the server cannot read.             *)

Doc(m, u, v, full) == [m |-> m, uri |-> u, v |-> v, full |-> full]
Ask(m) == Doc(m, CHOOSE u \in URIs : TRUE, 0, FALSE)

EditorNotify(body) ==
    /\ wire' = Written(wire, "editor", Notification(body))
    /\ UNCHANGED <<shut, conn>>

EditorInitialize ==
    /\ ed.phase = "start"
    /\ Call("editor", Ask("initialize"))
    /\ ed' = [ed EXCEPT !.phase = "initializing"]

EditorReady ==
    /\ ed.phase = "initializing"
    /\ conn["editor"].calls[1].st = "returned"
    /\ ed' = [ed EXCEPT !.phase = IF conn["editor"].calls[1].out[1] = "result"
                                  THEN "ready" ELSE "exited"]
    /\ UNCHANGED connVars

EditorEdit(u) ==
    /\ ed.phase = "ready"
    /\ ed.edits < ed.plan.edits
    /\ LET v == ed.bufs[u].v IN
       \E body \in IF v = 0 THEN {Doc("didOpen", u, ed.edits + 1, TRUE)}
                   ELSE {Doc("didChange", u, ed.edits + 1, full) : full \in BOOLEAN}
                        \cup {Doc(m, u, ed.edits + 1, FALSE) : m \in {"didSave", "didClose"}} :
        /\ EditorNotify(body)
        /\ ed' = [ed EXCEPT !.edits = @ + 1,
                            !.bufs = CASE body.m = "didOpen" -> StoreOpen(@, body)
                                       [] body.m = "didChange" -> StoreChange(@, body)
                                       [] body.m = "didClose" -> StoreClose(@, u)
                                       [] body.m = "didSave" -> @]

EditorAsk ==
    /\ ed.phase = "ready"
    /\ ed.asks < ed.plan.asks
    /\ Call("editor", [Ask("hover") EXCEPT !.v = ed.asks])
    /\ ed' = [ed EXCEPT !.asks = @ + 1]

EditorCancel ==
    /\ ed.phase = "ready"
    /\ ed.cancels < ed.plan.cancels
    /\ \E n \in Waiting("editor") : wire' = Written(wire, "editor", CancelRequest(n))
    /\ ed' = [ed EXCEPT !.cancels = @ + 1]
    /\ UNCHANGED <<shut, conn>>

EditorShutdown ==
    /\ ed.phase = "ready" /\ ed.plan.ends = "shutdown"
    /\ Call("editor", Ask("shutdown"))
    /\ ed' = [ed EXCEPT !.phase = "stopping"]

EditorExit ==
    /\ ed.phase = "stopping"
    /\ EditorNotify(Ask("exit"))
    /\ ed' = [ed EXCEPT !.phase = "exited"]

EditorClose ==
    /\ ed.phase \in {"exited", "stopping"}
    /\ "editor" \notin shut
    /\ shut' = shut \cup {"editor"}
    /\ UNCHANGED <<wire, conn, ed>>

EditorGarble ==
    /\ ed.phase = "ready" /\ ed.plan.ends = "garble"
    /\ wire' = Written(wire, "editor", Garbage)
    /\ ed' = [ed EXCEPT !.phase = "exited"]
    /\ UNCHANGED <<shut, conn>>

EditorNext ==
    /\ \/ EditorInitialize
       \/ EditorReady
       \/ \E u \in URIs : EditorEdit(u)
       \/ EditorAsk
       \/ EditorCancel
       \/ EditorShutdown
       \/ EditorExit
       \/ EditorClose
       \/ EditorGarble
    /\ UNCHANGED <<docs, srv, runs, shown>>

-------------------------------------------------------------------------------
(* The server's handlers.  A handler that ends replies if it serves a request.  *)

End(t, out) ==
    /\ conn' = Finished(conn, "front", t)
    /\ wire' = IF t.id = NoID THEN wire ELSE Replied(wire, "front", t, out)
    /\ UNCHANGED shut

Step(t, at) ==
    /\ conn' = Advanced(conn, "front", t, at, t.holds)
    /\ UNCHANGED <<wire, shut>>

(* Mutant: a timer that is armed is left for the old generation.                *)
ScheduleUnlessArmed ==
    srv' = [srv EXCEPT !.gen = @ + 1,
                       !.timer = IF srv.timer > 0 THEN srv.timer ELSE srv.gen + 1]

(* scheduleAnalysis: a new generation, and the timer armed again for it.        *)
scheduleAnalysis == srv' = [srv EXCEPT !.gen = @ + 1, !.timer = srv.gen + 1]

(* didOpen and didChange change the store, then schedule; a change the store    *)
(* refuses is logged and forgotten.                                             *)
Apply(t) ==
    /\ t.at = "new"
    /\ \/ /\ t.body.m = "didOpen"
          /\ docs' = StoreOpen(docs, t.body)
          /\ Step(t, "schedule")
       \/ /\ t.body.m = "didChange"
          /\ Accepts(docs, t.body)
          /\ docs' = StoreChange(docs, t.body)
          /\ Step(t, "schedule")
       \/ /\ t.body.m = "didChange"
          /\ ~Accepts(docs, t.body)
          /\ End(t, Result(t.body))
          /\ UNCHANGED docs
    /\ UNCHANGED srv

Schedule(t) ==
    /\ t.at = "schedule" \/ (t.at = "new" /\ t.body.m = "didSave")
    /\ scheduleAnalysis
    /\ End(t, Result(t.body))
    /\ UNCHANGED docs

(* didClose: the document leaves the store, then its diagnostics are cleared.   *)
onDidClose(t) ==
    /\ t.at = "new" /\ t.body.m = "didClose"
    /\ docs' = StoreClose(docs, t.body.uri)
    /\ Step(t, "clear")
    /\ UNCHANGED <<srv, shown>>

ClearDiagnostics(t) ==
    /\ t.at = "clear"
    /\ shown' = [shown EXCEPT !.last[t.body.uri] = Closed]
    /\ End(t, Result(t.body))
    /\ UNCHANGED <<docs, srv>>

onInitialize(t) ==
    /\ t.at = "new" /\ t.body.m = "initialize"
    /\ srv' = [srv EXCEPT !.svc = TRUE]
    /\ End(t, Result(t.body))
    /\ UNCHANGED docs

(* A feature request looks the document up, then analyses the overlay of the    *)
(* moment; without a document, or when the analysis fails, the answer is empty. *)
onFeature(t) ==
    /\ t.body.m = "hover"
    /\ \/ /\ t.at = "new" /\ IsOpen(docs, t.body.uri)
          /\ Step(t, "analyze")
       \/ /\ t.at = "new" /\ ~IsOpen(docs, t.body.uri)
          /\ End(t, Result(t.body))
       \/ /\ t.at = "analyze"
          /\ End(t, Result(t.body))
    /\ UNCHANGED <<docs, srv>>

onShutdown(t) ==
    /\ t.at = "new" /\ t.body.m \in {"shutdown", "exit"}
    /\ srv' = [srv EXCEPT !.shutdown = @ \/ t.body.m = "shutdown"]
    /\ End(t, Result(t.body))
    /\ UNCHANGED docs

HandleNext ==
    \E t \in conn["front"].tasks :
        /\ \/ /\ Apply(t) \/ Schedule(t) \/ onInitialize(t)
                 \/ onFeature(t) \/ onShutdown(t)
              /\ UNCHANGED shown
           \/ onDidClose(t)
           \/ ClearDiagnostics(t)
        /\ UNCHANGED <<ed, runs>>

-------------------------------------------------------------------------------
(* runAnalysis, one run per firing of the timer: the generation is looked at    *)
(* before the analysis and after it, then each open document is read again and  *)
(* its diagnostics published under the version it has by then.                  *)

Fire ==
    /\ srv.timer > 0
    /\ srv' = [srv EXCEPT !.timer = 0]
    /\ runs' = runs \cup {[gen |-> srv.timer, at |-> "check", seen |-> <<>>, todo |-> {}, by |-> 0]}
    /\ UNCHANGED <<docs, shown>>

RunStart(r) ==
    /\ r.at = "check"
    /\ runs' = (runs \ {r}) \cup (IF srv.svc /\ srv.gen = r.gen
                                  THEN {[r EXCEPT !.at = "overlay"]} ELSE {})
    /\ UNCHANGED <<docs, srv, shown>>

RunOverlay(r) ==
    /\ r.at = "overlay"
    /\ runs' = (runs \ {r}) \cup {[r EXCEPT !.at = "analyze", !.seen = Overlay(docs)]}
    /\ UNCHANGED <<docs, srv, shown>>

RunFails(r) ==
    /\ r.at = "analyze"
    /\ runs' = runs \ {r}
    /\ shown' = [shown EXCEPT !.failed = @ \cup {r.gen}]
    /\ UNCHANGED <<docs, srv>>

RunReturns(r) ==
    /\ r.at = "analyze"
    /\ IF srv.gen = r.gen
       THEN /\ runs' = (runs \ {r}) \cup
                         {[r EXCEPT !.at = "publish", !.todo = OpenURIs(docs)]}
            /\ shown' = [shown EXCEPT !.seen = r.seen]
       ELSE /\ runs' = runs \ {r}
            /\ UNCHANGED shown
    /\ UNCHANGED <<docs, srv>>

Publish(r) ==
    /\ r.at = "publish"
    /\ \/ /\ r.todo = {}
          /\ runs' = runs \ {r}
          /\ UNCHANGED shown
       \/ \E u \in r.todo :
          /\ runs' = (runs \ {r}) \cup {[r EXCEPT !.todo = @ \ {u}]}
          /\ shown' = IF ~IsOpen(docs, u) \/ u \notin DOMAIN r.seen THEN shown
                      ELSE [shown EXCEPT !.last[u] = [v |-> docs[u].v, text |-> r.seen[u]]]
    /\ UNCHANGED <<docs, srv>>

RunNext ==
    /\ Fire \/ \E r \in runs : RunStart(r) \/ RunOverlay(r) \/ RunFails(r)
                               \/ RunReturns(r) \/ Publish(r)
    /\ UNCHANGED <<ed, connVars>>

-------------------------------------------------------------------------------
(* Nothing is under way in the server.                                          *)
Settled == conn["front"].tasks = {} /\ wire["front"] = <<>> /\ srv.timer = 0 /\ runs = {}

(* Once the server has settled, the last analysis that published saw every open *)
(* document as the store holds it, unless it failed: a change is in the store   *)
(* before the generation it schedules, so no change is left unanalysed          *)
(* (onDidOpen, onDidChange, scheduleAnalysis, runAnalysis).                     *)
AnalysisCatchesUp ==
    Settled /\ srv.gen > 0 /\ srv.gen \notin shown.failed =>
        \A u \in OpenURIs(docs) : u \in DOMAIN shown.seen /\ shown.seen[u] = docs[u].text
===============================================================================
