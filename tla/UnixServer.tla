----------------------------- MODULE UnixServer -----------------------------
(***************************************************************************)
(* The servers bound to one Unix-socket path (class Server of              *)
(* ikigai/serve.py), one after the other or side by side, and the clients  *)
(* that dial the path and negotiate a wire version (connect and _hello of  *)
(* ikigai/client.py, and of ikigai/aio.py, which does the same).           *)
(*                                                                         *)
(* A server has a thread in serve_forever, a thread for each connection,   *)
(* and any number of threads that call shutdown().  It may crash, and      *)
(* leave its socket at the path.  The kernel keeps a queue of connections  *)
(* for each listening socket, and keeps a closed listening socket alive    *)
(* while a thread is blocked in accept() on it.                            *)
(***************************************************************************)
EXTENDS Naturals, Sequences, SequencesExt

CONSTANTS
  Servers,  (* the servers that bind the path                               *)
  Clients,  (* the callers of connect()                                     *)
  Stops,    (* the calls of shutdown(), each in its own thread              *)
  Speaks,   (* the version ranges of the packages servers come from         *)
  Mine,     (* the version range of the package the clients come from       *)
  Orderly,  (* whether each server starts after, and is shut down before,   *)
            (* any other: see MayStart and MayStop                          *)
  Nobody    (* no server, no connection                                     *)

ASSUME SetsAssumption ==
  /\ Clients \cap Stops = {} /\ Nobody \notin Servers \cup Clients \cup Stops
  /\ Orderly \in BOOLEAN

ASSUME RangesAssumption ==
  \A r \in Speaks \cup {Mine} :
    r.min \in Nat \ {0} /\ r.newest \in Nat /\ r.min <= r.newest

VARIABLES
  up,       (* how far each server's __init__ is, or that it crashed        *)
  speaks,   (* MIN_PROTOCOL_VERSION and PROTOCOL_VERSION of its package     *)
  path,     (* the server whose socket the path names                       *)
  listener, (* each server's listening socket, as its process sees it       *)
  queue,    (* the connections each listening socket holds for accept()     *)
  closing,  (* _closing                                                     *)
  loop,     (* where each serve_forever is                                  *)
  taken,    (* the connection accept() gave it last                         *)
  stop,     (* where each shutdown() is                                     *)
  target,   (* the server it shuts down                                     *)
  late,     (* history: the shutdown()s called on a server already down     *)
  client,   (* where each connect() is                                      *)
  offered,  (* the version it offers                                        *)
  first,    (* history: the server it reached first                         *)
  at,       (* the server it reached last                                   *)
  handler,  (* the server's thread for its connection                       *)
  answer    (* the version the server answered, 0 before that               *)

serverVars == <<up, speaks, path, listener, closing>>
loopVars   == <<queue, loop, taken>>
stopVars   == <<stop, target, late>>
clientVars == <<client, offered, first, at>>
linkVars   == <<handler, answer>>
vars       == <<serverVars, loopVars, stopVars, clientVars, linkVars>>

Ended == {"connected", "lost", "hungup", "refused", "closed"}

TypeOK ==
  /\ up \in [Servers -> {"new", "cleared", "up", "failed", "crashed"}]
  /\ speaks \in [Servers -> Speaks \cup {Mine}]
  /\ path \in Servers \cup {Nobody}
  /\ listener \in [Servers -> {"none", "open", "closed"}]
  /\ queue \in [Servers -> Seq(Clients \cup Stops)]
  /\ closing \in [Servers -> BOOLEAN]
  /\ loop \in [Servers -> {"off", "next", "accept", "check", "ended"}]
  /\ taken \in [Servers -> Clients \cup Stops \cup {Nobody}]
  /\ stop \in [Stops -> {"idle", "nudge", "close", "unlink", "done"}]
  /\ target \in [Stops -> Servers \cup {Nobody}]
  /\ late \subseteq Stops
  /\ client \in [Clients -> {"dial", "sent"} \cup Ended]
  /\ offered \in [Clients -> Nat]
  /\ first \in [Clients -> Servers \cup {Nobody}]
  /\ at \in [Clients -> Servers \cup {Nobody}]
  /\ handler \in [Clients -> {"none", "hello", "serving", "ended"}]
  /\ answer \in [Clients -> Nat]

Init ==
  /\ up = [s \in Servers |-> "new"]
  /\ speaks = [s \in Servers |-> Mine]
  /\ path = Nobody
  /\ listener = [s \in Servers |-> "none"]
  /\ queue = [s \in Servers |-> <<>>]
  /\ closing = [s \in Servers |-> FALSE]
  /\ loop = [s \in Servers |-> "off"]
  /\ taken = [s \in Servers |-> Nobody]
  /\ stop = [t \in Stops |-> "idle"]
  /\ target = [t \in Stops |-> Nobody]
  /\ late = {}
  /\ client = [c \in Clients |-> "dial"]
  /\ offered = [c \in Clients |-> Mine.newest]
  /\ first = [c \in Clients |-> Nobody]
  /\ at = [c \in Clients |-> Nobody]
  /\ handler = [c \in Clients |-> "none"]
  /\ answer = [c \in Clients |-> 0]
-----------------------------------------------------------------------------
(* The kernel: a listening socket lives while its descriptor is open or a  *)
(* thread is blocked in accept() on it.                                    *)
Listening(s) == listener[s] = "open" \/ (listener[s] # "none" /\ loop[s] = "accept")

(* A connect() to the path gets through. *)
Reachable == path # Nobody /\ Listening(path)

(* Connections the server will never serve: their clients read the end. *)
Dropped(cs) == [c \in Clients |-> IF c \in cs THEN "ended" ELSE handler[c]]

(* Every shutdown() of s has returned, or its process is gone. *)
Down(s) ==
  \/ up[s] \in {"new", "failed", "crashed"}
  \/ closing[s] /\ \A t \in Stops : target[t] = s => stop[t] = "done"

(* A server starts when no other runs, when the servers are Orderly. *)
MayStart(s) == Orderly => \A d \in Servers \ {s} : Down(d)

(* A server is shut down once it is up, and not again when it is down. *)
MayStop(s) == up[s] = "up" /\ (Orderly => ~Down(s))
-----------------------------------------------------------------------------
(* A server's life. *)

(* Mutants: operators named Bug_* are what the definition that follows them *)
(* would be with a plausible slip; no specification uses them.              *)
Bug_LeftoverKept(s) ==
  /\ up[s] = "new" /\ MayStart(s)
  /\ up' = [up EXCEPT ![s] = "cleared"]
  /\ \E r \in Speaks : speaks' = [speaks EXCEPT ![s] = r]
  /\ UNCHANGED <<path, listener, closing, loopVars, stopVars,
                 clientVars, linkVars>>

(* __init__, of whichever package: the socket a crashed server left would  *)
(* fail the bind.                                                           *)
Clear(s) ==
  /\ up[s] = "new" /\ MayStart(s)
  /\ up' = [up EXCEPT ![s] = "cleared"]
  /\ path' = Nobody
  /\ \E r \in Speaks : speaks' = [speaks EXCEPT ![s] = r]
  /\ UNCHANGED <<listener, closing, loopVars, stopVars, clientVars, linkVars>>

Bind(s) ==
  /\ up[s] = "cleared"
  /\ \/ /\ path = Nobody
        /\ up' = [up EXCEPT ![s] = "up"]
        /\ path' = s
        /\ listener' = [listener EXCEPT ![s] = "open"]
     \/ /\ path # Nobody
        /\ up' = [up EXCEPT ![s] = "failed"]
        /\ UNCHANGED <<path, listener>>
  /\ UNCHANGED <<speaks, closing, loopVars, stopVars, clientVars, linkVars>>

ServeForever(s) ==
  /\ up[s] = "up" /\ loop[s] = "off"
  /\ loop' = [loop EXCEPT ![s] = "next"]
  /\ UNCHANGED <<serverVars, queue, taken, stopVars, clientVars, linkVars>>

(* accept() blocks, or raises on a closed listener; _closing is set by then. *)
CallAccept(s) ==
  /\ loop[s] = "next"
  /\ loop' = [loop EXCEPT ![s] = IF listener[s] = "open" THEN "accept" ELSE "ended"]
  /\ UNCHANGED <<serverVars, queue, taken, stopVars, clientVars, linkVars>>

(* accept() returns, and lets go of a listener closed in the meantime. *)
Accept(s) ==
  /\ loop[s] = "accept" /\ queue[s] # <<>>
  /\ loop' = [loop EXCEPT ![s] = "check"]
  /\ taken' = [taken EXCEPT ![s] = Head(queue[s])]
  /\ LET rest == IF listener[s] = "open" THEN Tail(queue[s]) ELSE <<>> IN
     /\ queue' = [queue EXCEPT ![s] = rest]
     /\ handler' = Dropped(ToSet(Tail(queue[s])) \ ToSet(rest))
  /\ UNCHANGED <<serverVars, stopVars, clientVars, answer>>

(* A loop that removes the socket itself as it returns. *)
Bug_LoopUnlinks(s) ==
  /\ loop[s] = "check"
  /\ loop' = [loop EXCEPT ![s] = IF closing[s] THEN "ended" ELSE "next"]
  /\ taken' = [taken EXCEPT ![s] = Nobody]
  /\ path' = IF closing[s] THEN Nobody ELSE path
  /\ handler' = Dropped({taken[s]})
  /\ UNCHANGED <<up, speaks, listener, closing, queue, stopVars, clientVars,
                 answer>>

(* The rest of the loop's body: the wake-up of shutdown() is closed, a peer *)
(* whose uid is another's or unknown is too, and any other gets a thread.   *)
Check(s) ==
  /\ loop[s] = "check"
  /\ loop' = [loop EXCEPT ![s] = IF closing[s] THEN "ended" ELSE "next"]
  /\ taken' = [taken EXCEPT ![s] = Nobody]
  /\ \/ handler' = Dropped({taken[s]})
     \/ /\ taken[s] \in Clients /\ ~closing[s]
        /\ handler' = [handler EXCEPT ![taken[s]] = "hello"]
  /\ UNCHANGED <<serverVars, queue, stopVars, clientVars, answer>>

(* The process dies; its socket stays at the path. *)
Crash(s) ==
  /\ up[s] = "up"
  /\ up' = [up EXCEPT ![s] = "crashed"]
  /\ listener' = [listener EXCEPT ![s] = "closed"]
  /\ closing' = [closing EXCEPT ![s] = FALSE]
  /\ loop' = [loop EXCEPT ![s] = "ended"]
  /\ queue' = [queue EXCEPT ![s] = <<>>]
  /\ taken' = [taken EXCEPT ![s] = Nobody]
  /\ stop' = [t \in Stops |-> IF target[t] = s THEN "done" ELSE stop[t]]
  /\ handler' = Dropped({c \in Clients : at[c] = s})
  /\ UNCHANGED <<speaks, path, target, late, clientVars, answer>>
-----------------------------------------------------------------------------
(* shutdown(), one step for each thing another thread can see. *)

Shutdown(t, s) ==
  /\ stop[t] = "idle" /\ MayStop(s)
  /\ stop' = [stop EXCEPT ![t] = "nudge"]
  /\ target' = [target EXCEPT ![t] = s]
  /\ late' = IF closing[s] /\ Down(s) THEN late \cup {t} ELSE late
  /\ closing' = [closing EXCEPT ![s] = TRUE]
  /\ UNCHANGED <<up, speaks, path, listener, loopVars, clientVars, linkVars>>

Bug_NoNudge(t) ==
  /\ stop[t] = "nudge"
  /\ stop' = [stop EXCEPT ![t] = "close"]
  /\ UNCHANGED <<serverVars, loopVars, target, late, clientVars, linkVars>>

(* Wakes whichever server the path names. *)
Nudge(t) ==
  /\ stop[t] = "nudge"
  /\ stop' = [stop EXCEPT ![t] = "close"]
  /\ queue' = [s \in Servers |->
       IF Reachable /\ s = path THEN Append(queue[s], t) ELSE queue[s]]
  /\ UNCHANGED <<serverVars, loop, taken, target, late, clientVars, linkVars>>

CloseListener(t) ==
  /\ stop[t] = "close"
  /\ stop' = [stop EXCEPT ![t] = "unlink"]
  /\ LET s == target[t]
         held == IF loop[s] = "accept" THEN queue[s] ELSE <<>>
     IN
     /\ listener' = [listener EXCEPT ![s] = "closed"]
     /\ queue' = [queue EXCEPT ![s] = held]
     /\ handler' = Dropped(ToSet(queue[s]) \ ToSet(held))
  /\ UNCHANGED <<up, speaks, path, closing, loop, taken, target, late,
                 clientVars, answer>>

Unlink(t) ==
  /\ stop[t] = "unlink"
  /\ stop' = [stop EXCEPT ![t] = "done"]
  /\ path' = Nobody
  /\ UNCHANGED <<up, speaks, listener, closing, loopVars, target, late,
                 clientVars, linkVars>>
-----------------------------------------------------------------------------
(* Versions. *)

Bug_NewestRefused(r, v) == r.min <= v /\ v < r.newest

(* accepted_version: what a package that speaks the range r accepts. *)
Accepts(r, v) == r.min <= v /\ v <= r.newest

Bug_StepsAnywhere(o, a) ==
  IF a = o THEN "proceed" ELSE IF a < o THEN "redial" ELSE "refuse"

(* connect_version, for an offer o and an answer a. *)
ConnectVersion(o, a) ==
  IF a = o THEN "proceed"
  ELSE IF a < o /\ Accepts(Mine, a) THEN "redial" ELSE "refuse"

(* The server's thread reads the hello: it answers an offer it accepts with *)
(* the same version and serves it, any other with its own and hangs up.     *)
Hello(c) ==
  /\ handler[c] = "hello"
  /\ LET r == speaks[at[c]] IN
     \/ /\ client[c] # "sent"
        /\ handler' = [handler EXCEPT ![c] = "ended"]
        /\ UNCHANGED answer
     \/ /\ client[c] = "sent" /\ Accepts(r, offered[c])
        /\ handler' = [handler EXCEPT ![c] = "serving"]
        /\ answer' = [answer EXCEPT ![c] = offered[c]]
     \/ /\ client[c] = "sent" /\ ~Accepts(r, offered[c])
        /\ handler' = [handler EXCEPT ![c] = "ended"]
        /\ answer' = [answer EXCEPT ![c] = r.newest]
  /\ UNCHANGED <<serverVars, loopVars, stopVars, clientVars>>

(* The thread reads the end of a connection its client closed. *)
PeerHungUp(c) ==
  /\ handler[c] = "serving" /\ client[c] \notin {"sent", "connected"}
  /\ handler' = [handler EXCEPT ![c] = "ended"]
  /\ UNCHANGED <<serverVars, loopVars, stopVars, clientVars, answer>>
-----------------------------------------------------------------------------
(* connect(). *)

(* _dial, and the hello written; the last connection's thread is done. *)
Dial(c) ==
  /\ client[c] = "dial"
  /\ \/ /\ Reachable
        /\ client' = [client EXCEPT ![c] = "sent"]
        /\ at' = [at EXCEPT ![c] = path]
        /\ first' = [first EXCEPT ![c] = IF @ = Nobody THEN path ELSE @]
        /\ queue' = [queue EXCEPT ![path] = Append(@, c)]
        /\ handler' = [handler EXCEPT ![c] = "none"]
        /\ answer' = [answer EXCEPT ![c] = 0]
     \/ /\ ~Reachable
        /\ client' = [client EXCEPT ![c] = "lost"]
        /\ UNCHANGED <<at, first, queue, linkVars>>
  /\ UNCHANGED <<serverVars, loop, taken, stopVars, offered>>

(* The answer is read: go on, step down and dial again, or refuse. *)
Answered(c) ==
  /\ client[c] = "sent" /\ answer[c] # 0
  /\ LET what == ConnectVersion(offered[c], answer[c]) IN
     \/ /\ what = "proceed"
        /\ client' = [client EXCEPT ![c] = "connected"]
        /\ UNCHANGED offered
     \/ /\ what = "redial"
        /\ client' = [client EXCEPT ![c] = "dial"]
        /\ offered' = [offered EXCEPT ![c] = answer[c]]
     \/ /\ what = "refuse"
        /\ client' = [client EXCEPT ![c] = "refused"]
        /\ UNCHANGED offered
  /\ UNCHANGED <<serverVars, loopVars, stopVars, first, at, linkVars>>

(* The end of the stream instead of an answer. *)
HungUp(c) ==
  /\ client[c] = "sent" /\ handler[c] = "ended" /\ answer[c] = 0
  /\ client' = [client EXCEPT ![c] = "hungup"]
  /\ UNCHANGED <<serverVars, loopVars, stopVars, offered, first, at, linkVars>>

(* A timeout armed only once the connection was accepted. *)
Bug_TimeoutNeedsThread(c) ==
  /\ client[c] = "sent" /\ answer[c] = 0 /\ handler[c] # "none"
  /\ client' = [client EXCEPT ![c] = "lost"]
  /\ UNCHANGED <<serverVars, loopVars, stopVars, offered, first, at, linkVars>>

(* No answer within the timeout. *)
Silent(c) ==
  /\ client[c] = "sent" /\ answer[c] = 0
  /\ client' = [client EXCEPT ![c] = "lost"]
  /\ UNCHANGED <<serverVars, loopVars, stopVars, offered, first, at, linkVars>>

CloseClient(c) ==
  /\ client[c] = "connected"
  /\ client' = [client EXCEPT ![c] = "closed"]
  /\ UNCHANGED <<serverVars, loopVars, stopVars, offered, first, at, linkVars>>
-----------------------------------------------------------------------------
Serves(s) == CallAccept(s) \/ Accept(s) \/ Check(s)
Stop(t)   == Nudge(t) \/ CloseListener(t) \/ Unlink(t)
Dials(c)  == Dial(c) \/ Answered(c) \/ HungUp(c) \/ Silent(c)

Next ==
  \/ \E s \in Servers :
       \/ Clear(s) \/ Bind(s) \/ ServeForever(s) \/ Serves(s) \/ Crash(s)
       \/ \E t \in Stops : Shutdown(t, s)
  \/ \E t \in Stops : Stop(t)
  \/ \E c \in Clients : Dials(c) \/ Hello(c) \/ PeerHungUp(c) \/ CloseClient(c)

Spec == Init /\ [][Next]_vars

(* Threads are scheduled, and the client's socket has a timeout. *)
FairSpec ==
  /\ Spec
  /\ \A s \in Servers : WF_vars(Serves(s))
  /\ \A t \in Stops : WF_vars(Stop(t))
  /\ \A c \in Clients : WF_vars(Dials(c))
-----------------------------------------------------------------------------
(* What must hold. *)

(* A server that is up and was not shut down is the one the path names, if *)
(* servers are started and shut down one after the other, and crash        *)
(* whenever they do (__init__, shutdown).                                  *)
UpIsReachable ==
  Orderly => \A s \in Servers : up[s] = "up" /\ ~closing[s] => path = s

(* A server that is started in order comes up, whatever a server that      *)
(* crashed or was shut down left at the path (__init__).                   *)
LeftoverReplaced == Orderly => \A s \in Servers : up[s] # "failed"

(* serve_forever returns once shutdown() was called, however shutdown's    *)
(* steps fall between those of the accept loop and the clients'            *)
(* connections.  It is said of servers that run one after the other: where *)
(* another took the path in between, the wake-up goes to that one, and the *)
(* accept of the first is left blocked (serve_forever, shutdown).          *)
AcceptLoopEnds ==
  Orderly => \A s \in Servers : closing[s] ~> loop[s] \in {"off", "ended"}

Common(r) == {v \in Mine.min .. Mine.newest : Accepts(r, v)}

(***************************************************************************)
(* When the door is not replaced in between, connect() ends on the highest *)
(* version both sides speak, its hello answered in kind; and it says that  *)
(* the versions are out of reach only if they are (_hello, connect,        *)
(* accepted_version, connect_version).                                     *)
(***************************************************************************)
NegotiatesBest ==
  \A c \in Clients : at[c] # Nobody /\ first[c] = at[c] =>
    LET common == Common(speaks[at[c]]) IN
    /\ client[c] = "connected" =>
         /\ offered[c] \in common /\ \A v \in common : v <= offered[c]
         /\ answer[c] = offered[c]
    /\ client[c] = "refused" => common = {}

(* Every redial offers an older version, down to the oldest spoken here,   *)
(* also when the server is replaced between two dials.                     *)
OfferStepsDown ==
  [][\A c \in Clients : offered'[c] # offered[c] =>
       /\ offered'[c] < offered[c] /\ offered'[c] >= Mine.min
       /\ client'[c] = "dial"]_vars

(* Every connect() ends, whatever becomes of the servers. *)
EveryConnectEnds == \A c \in Clients : <>(client[c] \in Ended)
-----------------------------------------------------------------------------
(* What the documentation says and the code does not do. *)

(* Shutdown is "a no-op if the server is already down" (serve.py): a call  *)
(* made when an earlier one had returned leaves the path alone.            *)
SecondShutdownIsNoOp ==
  [][\A t \in late : stop'[t] # stop[t] => path' = path]_vars
=============================================================================
