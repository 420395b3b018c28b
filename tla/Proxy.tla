--------------------------------- MODULE Proxy ---------------------------------
(* The optional proxy between an editor and gopls (internal/lsp/proxy): one     *)
(* connection to the editor ("front"), one to gopls ("back"), a context shared  *)
(* by both.  A request is forwarded under an identifier of the other            *)
(* connection; some answers are merged with BatchWeaver's own; notifications    *)
(* are mirrored into the document store and passed on.  The same endpoints      *)
(* without gopls are the standalone server of LanguageServer.                   *)
EXTENDS LanguageServer

VARIABLE asked     \* whether gopls made its one request or notification of the editor

sessionVars == <<connVars, lsVars, asked>>

(* Which program the editor started: "server" or "proxy".                       *)
mode == ed.plan.mode

SessionInit ==
    /\ asked = FALSE
    /\ LsInit
    /\ \E handlers \in {{"front", "back", "gopls"}, Ends} :
        (ed.plan.gopls # "asks" => "editor" \in handlers) /\ ConnInit(handlers)

-------------------------------------------------------------------------------
(* handleFromClient.                                                            *)

(* trackDocument mirrors the text synchronisation; a change the store refuses   *)
(* is dropped.                                                                  *)
trackDocument(body) ==
    CASE body.m = "didOpen" -> StoreOpen(docs, body)
      [] body.m = "didChange" -> IF Accepts(docs, body) THEN StoreChange(docs, body) ELSE docs
      [] body.m = "didClose" -> StoreClose(docs, body.uri)
      [] OTHER -> docs

Track(t) ==
    /\ t.at = "new" /\ t.id = NoID
    /\ docs' = trackDocument(t.body)
    /\ Step(t, "forward")
    /\ UNCHANGED <<srv, runs>>

(* forwardRequest, and the calls of the merging handlers and of initialize:     *)
(* gopls is asked under a number of the back connection.                        *)
ForwardRequest(t) ==
    /\ t.at = "new" /\ t.id # NoID
    /\ wire' = Written(wire, "back", CallFrame("back", t.body))
    /\ conn' = Called(Advanced(conn, "front", t, "await", Len(conn["back"].calls) + 1),
                      "back", t.body)
    /\ srv' = [srv EXCEPT !.svc = @ \/ t.body.m = "initialize"]
    /\ UNCHANGED <<shut, docs, runs>>

(* A notification goes on to gopls; a text change also starts an analysis, and  *)
(* exit cancels the session.                                                    *)
Canceled(c) == [c EXCEPT !["front"].done = TRUE, !["back"].done = TRUE]

ForwardNotification(t) ==
    /\ t.at = "forward"
    /\ wire' = Written(wire, "back", Notification(t.body))
    /\ conn' = LET c == Finished(conn, "front", t) IN
               IF t.body.m = "exit" THEN Canceled(c) ELSE c
    /\ runs' = IF t.body.m \in {"didOpen", "didChange", "didSave"}
               THEN runs \cup {[gen |-> 0, at |-> "overlay", seen |-> <<>>,
                                todo |-> {}, by |-> t.body.v]}
               ELSE runs
    /\ UNCHANGED <<shut, docs, srv>>

(* The forwarded call returned.  A plain forward passes the answer on; a merged *)
(* one keeps what gopls gave and adds BatchWeaver's part, and is never an error *)
(* because gopls failed.                                                        *)
Merged(body) == body.m = "hover"

MergedOutcome(t, out) ==
    IF out[1] = "result" \/ ~Merged(t.body) THEN out ELSE Result(t.body)

Forwarded(t) ==
    /\ t.at = "await"
    /\ LET c == conn["back"].calls[t.holds] IN
       /\ c.st = "returned"
       /\ End(t, MergedOutcome(t, c.out))
    /\ UNCHANGED <<docs, srv, runs>>

(* The context of the request ends the call it made.                            *)
ForwardAbandoned(t) ==
    /\ t.at = "await"
    /\ CtxDone("front", t.id)
    /\ Abandon("back", t.holds)
    /\ UNCHANGED <<docs, srv, runs>>

FrontNext ==
    /\ \E t \in conn["front"].tasks :
        Track(t) \/ ForwardRequest(t) \/ ForwardNotification(t) \/ Forwarded(t)
        \/ ForwardAbandoned(t)
    /\ UNCHANGED <<ed, shown, asked>>

-------------------------------------------------------------------------------
(* handleFromGopls: requests and notifications of gopls go to the editor.       *)

ToClient(t) ==
    /\ t.at = "new"
    /\ IF t.id = NoID
       THEN /\ wire' = Written(wire, "front", Notification(t.body))
            /\ conn' = Finished(conn, "back", t)
       ELSE /\ wire' = Written(wire, "front", CallFrame("front", t.body))
            /\ conn' = Called(Advanced(conn, "back", t, "await",
                                       Len(conn["front"].calls) + 1),
                              "front", t.body)
    /\ UNCHANGED shut

FromClient(t) ==
    /\ t.at = "await"
    /\ LET c == conn["front"].calls[t.holds] IN
       /\ c.st = "returned"
       /\ conn' = Finished(conn, "back", t)
       /\ wire' = Replied(wire, "back", t, c.out)
    /\ UNCHANGED shut

ToClientAbandoned(t) ==
    /\ t.at = "await"
    /\ CtxDone("back", t.id)
    /\ Abandon("front", t.holds)

BackNext ==
    /\ \E t \in conn["back"].tasks : ToClient(t) \/ FromClient(t) \/ ToClientAbandoned(t)
    /\ UNCHANGED <<lsVars, asked>>

-------------------------------------------------------------------------------
(* The peers (external): gopls answers what it is asked, asks the editor once,  *)
(* and may exit; the editor answers what it is asked.                           *)

Answer(e) ==
    /\ \E t \in conn[e].tasks :
        /\ conn' = Finished(conn, e, t)
        /\ wire' = IF t.id = NoID THEN wire ELSE Replied(wire, e, t, Result(t.body))
    /\ UNCHANGED <<shut, lsVars, asked>>

GoplsAsks ==
    /\ ~asked /\ ed.plan.gopls = "asks"
    /\ conn["gopls"].serve = "reading"
    /\ asked' = TRUE
    /\ \/ Call("gopls", Ask("configuration"))
       \/ /\ wire' = Written(wire, "gopls", Notification(Ask("publish")))
          /\ UNCHANGED <<shut, conn>>
    /\ UNCHANGED lsVars

(* gopls exits by itself, or is killed when the context it was started with is. *)
GoplsExits ==
    /\ "gopls" \notin shut
    /\ ed.plan.gopls = "exits" \/ conn["back"].done
    /\ shut' = shut \cup {"gopls"}
    /\ conn' = Stopped(conn, "gopls", "context")
    /\ UNCHANGED <<wire, lsVars, asked>>

-------------------------------------------------------------------------------
(* The read loops, and what follows when one returns: the proxy cancels the     *)
(* session when gopls is gone, and the program exits when the editor's loop     *)
(* ends.                                                                        *)

Side(e) == /\ ReadMessage(e) \/ (e # "gopls" /\ ReadEOF(e)) \/ Drain(e)
           /\ UNCHANGED <<lsVars, asked>>

CallReturns(e) == /\ \E n \in Waiting(e) : Receive(e, n) \/ CallClosed(e, n)
                  /\ UNCHANGED <<lsVars, asked>>

BackEnds ==
    /\ conn["back"].serve = "stopped"
    /\ ~conn["back"].done
    /\ conn' = Canceled(conn)
    /\ UNCHANGED <<wire, shut, lsVars, asked>>

FrontEnds ==
    /\ conn["front"].serve = "stopped"
    /\ "front" \notin shut
    /\ shut' = shut \cup {"front", "back"}
    /\ conn' = Canceled(conn)
    /\ UNCHANGED <<wire, lsVars, asked>>

InUse == IF mode = "proxy" THEN Ends ELSE {"editor", "front"}

ServerNext == mode = "server" /\ HandleNext /\ UNCHANGED asked
ProxyNext == mode = "proxy" /\ (FrontNext \/ BackNext)

ConnectionsNext == \E e \in InUse : Side(e) \/ CallReturns(e)

SessionNext ==
    \/ EditorNext /\ UNCHANGED asked
    \/ ConnectionsNext
    \/ FrontEnds
    \/ ServerNext
    \/ RunNext /\ UNCHANGED asked
    \/ ProxyNext
    \/ /\ mode = "proxy"
       /\ \/ BackEnds
          \/ Answer("gopls")
          \/ Answer("editor")
          \/ GoplsAsks
          \/ GoplsExits

(* Goroutines that can run do run, gopls answers and a killed process dies; the *)
(* editor is only assumed to read and answer what it receives.                  *)
SessionFairness ==
    /\ WF_sessionVars(ConnectionsNext)
    /\ WF_sessionVars(FrontEnds)
    /\ WF_sessionVars(ServerNext)
    /\ WF_sessionVars(ProxyNext)
    /\ WF_sessionVars(mode = "proxy" /\ BackEnds)
    /\ WF_sessionVars(mode = "proxy" /\ Answer("gopls"))

(* Serve that returns after a clean end of the editor's stream has flushed its  *)
(* answers: each request it read is answered on the wire or at its caller       *)
(* (drain, conn.go:300).                                                        *)
CleanCloseAnswersAll ==
    conn["front"].cause = "drained" =>
        \A n \in Waiting("editor") :
            \/ conn["editor"].calls[n].chan # <<>>
            \/ \E i \in DOMAIN wire["editor"] :
                   wire["editor"][i].kind = "response" /\ wire["editor"][i].id = n

(* Every request of the editor gets an answer or an error, whatever is          *)
(* canceled, garbled or closed meanwhile and even when gopls exits under it     *)
(* (Conn.Call, handleRequest, forwardRequest).                                  *)
RequestsAnswered == Waiting("editor") # {} ~> Waiting("editor") = {}
===============================================================================
