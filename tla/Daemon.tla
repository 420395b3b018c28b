-------------------------------- MODULE Daemon --------------------------------
(* The life of workspace daemons (internal/daemon): Start, Close, Stop, Clean   *)
(* and Status over the two files they share, the discovery record and the       *)
(* socket.  Daemons of one workspace use the same two paths.                    *)
(*                                                                              *)
(*   dm.info     whose discovery record is in the workspace;                    *)
(*   dm.sock     whose socket the path leads to;                                *)
(*   dm.proc[d]  where daemon d is: off, in the steps of Start, serving, asked  *)
(*               to shut down, in the steps of Close, or dead;                  *)
(*   dm.overlap  whether a command ever began while another start or stop was   *)
(*               under way.                                                     *)
EXTENDS Integers, FiniteSets

CONSTANTS Daemons, NoDaemon, MaxCrashes

VARIABLE dm

DmInit ==
    dm = [info |-> NoDaemon, sock |-> NoDaemon, proc |-> [d \in Daemons |-> "off"],
          crashes |-> 0, overlap |-> FALSE]

Listening(d) == dm.proc[d] \in {"listening", "serving", "closing"}

(* Dialling the socket path reaches whoever is still listening on that file.    *)
Reachable == dm.sock # NoDaemon /\ Listening(dm.sock)

Busy == \E d \in Daemons :
            dm.proc[d] \in {"starting", "unlinked", "listening", "closing", "closed", "removed"}

At(st, d, p) == [st EXCEPT !.proc[d] = p]
Overlap(st) == [st EXCEPT !.overlap = @ \/ Busy]

-------------------------------------------------------------------------------
(* Mutant: a daemon that answers is not looked for.                             *)
StartUnchecked(d) ==
    /\ dm.proc[d] = "off"
    /\ dm' = Overlap(At(dm, d, "starting"))

(* Start: refused when the record leads to a daemon that answers.               *)
StartCheck(d) ==
    /\ dm.proc[d] = "off"
    /\ ~(dm.info # NoDaemon /\ Reachable)
    /\ dm' = Overlap(At(dm, d, "starting"))

(* A stale socket file is removed, then the path is bound: the bind fails when  *)
(* another daemon took the path in between.                                     *)
StartUnlink(d) ==
    /\ dm.proc[d] = "starting"
    /\ dm' = At([dm EXCEPT !.sock = NoDaemon], d, "unlinked")

StartListen(d) ==
    /\ dm.proc[d] = "unlinked"
    /\ dm' = IF dm.sock = NoDaemon THEN At([dm EXCEPT !.sock = d], d, "listening")
             ELSE At(dm, d, "off")

(* The record is written, or the listener is closed, which unlinks the path.    *)
writeInfo(d) ==
    /\ dm.proc[d] = "listening"
    /\ \/ dm' = At([dm EXCEPT !.info = d], d, "serving")
       \/ dm' = At([dm EXCEPT !.sock = NoDaemon], d, "off")

(* A shutdown request, or the end of the context given to Start.                *)
AskClose(d) ==
    /\ dm.proc[d] = "serving"
    /\ dm' = Overlap(At(dm, d, "closing"))

(* Stop: the request goes to whoever the record and the socket lead to; when    *)
(* nobody answers the two files are removed.                                    *)
Stop ==
    /\ dm.info # NoDaemon
    /\ IF Reachable
       THEN /\ dm.proc[dm.sock] = "serving"
            /\ dm' = Overlap(At(dm, dm.sock, "closing"))
       ELSE dm' = Overlap([dm EXCEPT !.sock = NoDaemon, !.info = NoDaemon])

(* Close: the listener, which unlinks its path, the socket path once more, and  *)
(* the record, whoever wrote them last.                                         *)
CloseListener(d) ==
    /\ dm.proc[d] = "closing"
    /\ dm' = At([dm EXCEPT !.sock = NoDaemon], d, "closed")

CloseSocket(d) ==
    /\ dm.proc[d] = "closed"
    /\ dm' = At([dm EXCEPT !.sock = NoDaemon], d, "removed")

CloseInfo(d) ==
    /\ dm.proc[d] = "removed"
    /\ dm' = At([dm EXCEPT !.info = NoDaemon], d, "off")

(* Clean: refused while a daemon answers, else the leftovers go.                *)
Clean ==
    /\ ~(dm.info # NoDaemon /\ Reachable)
    /\ dm' = Overlap([dm EXCEPT !.sock = NoDaemon, !.info = NoDaemon])

Crash(d) ==
    /\ dm.proc[d] # "off"
    /\ dm.crashes < MaxCrashes
    /\ dm' = At([dm EXCEPT !.crashes = @ + 1], d, "off")

DmNext ==
    \/ \E d \in Daemons :
        StartCheck(d) \/ StartUnlink(d) \/ StartListen(d) \/ writeInfo(d) \/ AskClose(d)
        \/ CloseListener(d) \/ CloseSocket(d) \/ CloseInfo(d) \/ Crash(d)
    \/ Stop
    \/ Clean

-------------------------------------------------------------------------------
(* Commands given one at a time keep the workspace in order through crashes and *)
(* leftovers: at most one daemon serves, and it is the one that the record and  *)
(* the socket lead to (Start, Close, Stop, Clean).                              *)
OneOwner ==
    ~dm.overlap =>
        \A d \in Daemons : dm.proc[d] = "serving" =>
            /\ dm.info = d /\ dm.sock = d
            /\ \A x \in Daemons \ {d} : ~Listening(x)
===============================================================================
