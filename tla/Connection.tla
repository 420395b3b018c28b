------------------------------ MODULE Connection ------------------------------
(* A JSON-RPC connection (internal/lsp/jsonrpc): Conn's read loop, the          *)
(* goroutines that run handlers, and the calls waiting for an answer.  Several  *)
(* endpoints run the same code, joined in pairs by streams; what a handler does *)
(* is left to the module that composes the endpoints.                           *)
(*                                                                              *)
(*   wire[e]  the frames on their way to e, in order: writes are serialised;    *)
(*   shut     the endpoints that closed their outgoing stream;                  *)
(*   conn[e]  the Conn itself: the state of Serve and why it stopped, whether   *)
(*            the context given to Serve is done, whether a handler is set, the *)
(*            outgoing calls by number (seq is the length), the handler         *)
(*            goroutines in flight and the requests whose context is canceled.  *)
EXTENDS Integers, Sequences, FiniteSets

CONSTANTS Ends, Peer

VARIABLES wire, shut, conn

connVars == <<wire, shut, conn>>

-------------------------------------------------------------------------------
(* Frames.  A request and a response carry an id, a notification does not.      *)

NoID == 0
Frame(kind, id, body) == [kind |-> kind, id |-> id, body |-> body]
Request(id, body) == Frame("request", id, <<"ask", body>>)
Notification(body) == Frame("notify", NoID, <<"ask", body>>)
CancelRequest(id) == Frame("cancel", id, <<"none">>)
Garbage == Frame("bad", NoID, <<"none">>)

Result(body) == <<"result", body>>
Failure(code) == <<"error", code>>

NewConn(handler) ==
    [serve |-> "reading", cause |-> "none", done |-> FALSE, handler |-> handler,
     calls |-> <<>>, tasks |-> {}, canceled |-> {}]

ConnInit(handlers) ==
    /\ wire = [e \in Ends |-> <<>>]
    /\ shut = {}
    /\ conn = [e \in Ends |-> NewConn(e \in handlers)]

(* write: one frame after the other; the error of a closed stream is dropped by *)
(* Reply and Notify and returned by Call.                                       *)
Written(w, e, frame) ==
    IF e \in shut THEN w ELSE [w EXCEPT ![Peer[e]] = Append(@, frame)]

-------------------------------------------------------------------------------
(* Outgoing calls.                                                              *)

Waiting(e) == {n \in DOMAIN conn[e].calls : conn[e].calls[n].st = "waiting"}

(* The call that c's endpoint e makes next: registered, then written.           *)
Called(c, e, body) ==
    [c EXCEPT ![e].calls = Append(@,
        [st   |-> IF e \in shut THEN "returned" ELSE "waiting",
         body |-> body, chan |-> <<>>,
         out  |-> IF e \in shut THEN Failure("write") ELSE Failure("none")])]

CallFrame(e, body) == Request(Len(conn[e].calls) + 1, body)

Returned(c, e, n, out) ==
    [c EXCEPT ![e].calls[n] = [@ EXCEPT !.st = "returned", !.out = out]]

Call(e, body) ==
    /\ wire' = Written(wire, e, CallFrame(e, body))
    /\ conn' = Called(conn, e, body)
    /\ UNCHANGED shut

(* The three arms of Call's select.                                             *)
Receive(e, n) ==
    /\ n \in Waiting(e)
    /\ conn[e].calls[n].chan # <<>>
    /\ conn' = Returned(conn, e, n, Head(conn[e].calls[n].chan))
    /\ UNCHANGED <<wire, shut>>

Abandon(e, n) ==
    /\ n \in Waiting(e)
    /\ wire' = Written(wire, e, CancelRequest(n))
    /\ conn' = Returned(conn, e, n, Failure("context"))
    /\ UNCHANGED shut

(* Mutant: calls are released only when the stream failed.                      *)
CallClosedOnError(e, n) ==
    /\ n \in Waiting(e)
    /\ conn[e].serve = "stopped"
    /\ conn[e].cause = "error"
    /\ conn' = Returned(conn, e, n, Failure("closed"))
    /\ UNCHANGED <<wire, shut>>

CallClosed(e, n) ==
    /\ n \in Waiting(e)
    /\ conn[e].serve = "stopped"
    /\ conn' = Returned(conn, e, n, Failure("closed"))
    /\ UNCHANGED <<wire, shut>>

-------------------------------------------------------------------------------
(* Handlers.                                                                    *)

(* A goroutine that runs the handler, where it stands in it and what it holds.  *)
Task(id, body) == [id |-> id, body |-> body, at |-> "new", holds |-> 0]

CtxDone(e, id) == conn[e].done \/ id \in conn[e].canceled

(* The end of a handler's goroutine: the answer to a request, and the context   *)
(* unregistered.  A result computed for a canceled request is not delivered.    *)
Outcome(e, t, out) ==
    IF CtxDone(e, t.id) /\ out[1] = "result" THEN Failure("canceled") ELSE out

Replied(w, e, t, out) ==
    Written(w, e, Frame("response", t.id, Outcome(e, t, out)))

Finished(c, e, t) ==
    [c EXCEPT ![e].tasks = @ \ {t}, ![e].canceled = @ \ {t.id}]

Advanced(c, e, t, at, holds) ==
    [c EXCEPT ![e].tasks = (@ \ {t}) \cup {[t EXCEPT !.at = at, !.holds = holds]}]

-------------------------------------------------------------------------------
(* Serve.  The context is looked at between two messages only: a read that      *)
(* blocks is not interrupted by it.                                             *)

Stopped(c, e, cause) == [c EXCEPT ![e].serve = "stopped", ![e].cause = cause]

Looped(c, e) == IF c[e].done THEN Stopped(c, e, "context") ELSE c

(* dispatch: a response goes to the call that waits for it, a cancellation to   *)
(* the context of the request, anything else to a goroutine of its own; without *)
(* a handler a request is refused and a notification dropped.                   *)
Dispatched(c, e, f) ==
    CASE f.kind = "response" /\ f.id \in Waiting(e) ->
            [c EXCEPT ![e].calls[f.id].chan = Append(@, f.body)]
      [] f.kind = "response" /\ f.id \notin Waiting(e) -> c
      [] f.kind = "cancel" ->
            IF \E t \in c[e].tasks : t.id = f.id
            THEN [c EXCEPT ![e].canceled = @ \cup {f.id}] ELSE c
      [] f.kind \in {"request", "notify"} ->
            IF c[e].handler
            THEN [c EXCEPT ![e].tasks = @ \cup {Task(f.id, f.body[2])}] ELSE c

(* deliverResponse sends on a channel of capacity one.                          *)
Deliverable(e, f) ==
    f.kind = "response" /\ f.id \in Waiting(e) => conn[e].calls[f.id].chan = <<>>

ReadMessage(e) ==
    /\ conn[e].serve = "reading"
    /\ wire[e] # <<>>
    /\ LET f == Head(wire[e])
           w == [wire EXCEPT ![e] = Tail(@)]
       IN  IF f.kind = "bad"
           THEN /\ conn' = Stopped(conn, e, "error")
                /\ wire' = w
           ELSE /\ Deliverable(e, f)
                /\ conn' = Looped(Dispatched(conn, e, f), e)
                /\ wire' = IF f.kind = "request" /\ ~conn[e].handler
                           THEN Written(w, e, Frame("response", f.id,
                                                    Failure("method not found")))
                           ELSE w
    /\ UNCHANGED shut

ReadEOF(e) ==
    /\ conn[e].serve = "reading"
    /\ wire[e] = <<>>
    /\ Peer[e] \in shut
    /\ conn' = [conn EXCEPT ![e].serve = "draining"]
    /\ UNCHANGED <<wire, shut>>

(* drain: the handlers in flight finish, or five seconds pass.                  *)
Drain(e) ==
    /\ conn[e].serve = "draining"
    /\ conn' = Stopped(conn, e, IF conn[e].tasks = {} THEN "drained" ELSE "timeout")
    /\ UNCHANGED <<wire, shut>>

-------------------------------------------------------------------------------
(* The stream of capacity-one channels never makes the read loop wait: a call   *)
(* that still waits has received no answer yet when its answer arrives, so      *)
(* deliverResponse (conn.go:235) never blocks Serve.                            *)
ReaderNeverBlocks ==
    \A e \in Ends :
        conn[e].serve = "reading" /\ wire[e] # <<>> => Deliverable(e, Head(wire[e]))

(* An answer reaches the call it was made for: identifiers assigned by one      *)
(* connection are never taken for another's, in either direction and through a  *)
(* proxy that forwards a request under a new identifier (Call, deliverResponse, *)
(* forwardRequest).                                                             *)
OwnReply ==
    \A e \in Ends : \A n \in DOMAIN conn[e].calls :
        LET c == conn[e].calls[n] IN
        c.st = "returned" /\ c.out[1] = "result" => c.out[2] = c.body
===============================================================================
