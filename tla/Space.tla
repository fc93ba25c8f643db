------------------------------- MODULE Space -------------------------------
(***************************************************************************)
(* The space one server serves (class Space of ikigai/serve.py) and the    *)
(* connection threads that dispatch calls to it (Server._handle).  A call  *)
(* is routed to the first door that matches its name, meets the floor of   *)
(* the scopes that door declares (ikigai/capability.py decides what covers *)
(* a scope), and is answered at once or enters a handler.                  *)
(*                                                                         *)
(* Between two handlers' steps, dispatch touches nothing that threads      *)
(* share, so it is one step up to the handler and one from its return.     *)
(* What a representation holds is left out, whether it may be cached is    *)
(* not.  A pattern stands as the set of names it matches.                  *)
(***************************************************************************)
EXTENDS Naturals, Sequences

CONSTANTS
  Threads,     (* the server's connection threads                           *)
  Spaces,      (* the spaces that may be served: sequences of doors         *)
  Calls,       (* the calls the peer of each thread makes                   *)
  Names,       (* the names they ask for                                    *)
  Scopes,      (* the scopes declared or held                               *)
  Families,    (* those that end in `*`                                     *)
  Under,       (* the scopes that start with the text before the `*`        *)
  Exclusions,  (* those is_deny_scope recognises                            *)
  Principals,  (* those _principal_in recognises                            *)
  Runs,        (* the run contexts an IssueWith carries                     *)
  Nothing      (* no call, no reply, no run                                 *)

Declarable == {"Source", "Sink", "Exists", "Delete"}
Verbs      == Declarable \cup {"Meta"}
Mutating   == {"Sink", "Delete"}

Action       == [requires : SUBSET Scopes, marked : BOOLEAN, cacheable : BOOLEAN]
Capability   == [root : BOOLEAN, held : SUBSET Scopes]

(* Issue is IssueAs under root; IssueWith carries a run, and IssueTraced, or *)
(* an IssueWith with a trace, asks for one.                                  *)
Call == [verb : Verbs, name : Names, cap : Capability,
         args : {"fit", "missing", "invalid"},
         run : Runs \cup {Nothing}, traced : BOOLEAN]

(* A door as its decorators leave it: a flat one is a Source endpoint. *)
IsDoor(d) ==
  /\ d.declared \subseteq Names /\ d.aliased \subseteq Names
  /\ d.flat \in BOOLEAN
  /\ DOMAIN d.actions # {} /\ DOMAIN d.actions \subseteq Declarable
  /\ d.flat => DOMAIN d.actions = {"Source"}
  /\ \A v \in DOMAIN d.actions :
       d.actions[v] \in Action /\ (v \in Mutating => ~d.actions[v].cacheable)

ASSUME SpacesAssumption ==
  \A doors \in Spaces :
    /\ doors \in Seq({doors[i] : i \in DOMAIN doors})
    /\ \A i \in DOMAIN doors : IsDoor(doors[i])

ASSUME CallsAssumption ==
  Calls \in [Threads -> SUBSET Call] /\ Nothing \notin Runs

ASSUME ScopesAssumption ==
  /\ Families \subseteq Scopes /\ Under \in [Families -> SUBSET Scopes]
  /\ Exclusions \subseteq Scopes /\ Principals \subseteq Scopes

VARIABLES
  space,    (* the doors, in the order they were declared                   *)
  alias,    (* the threads whose peer's hello declared an alias mount       *)
  state,    (* what each thread is doing                                    *)
  call,     (* the call it answers                                          *)
  handler,  (* the verb whose handler runs                                  *)
  reply,    (* the reply it is about to write                               *)
  run       (* the value of _RUN in its context                             *)

serverVars == <<space, alias>>
vars       == <<serverVars, state, call, handler, reply, run>>

Failures == {"Unresolved", "Denied", "Missing", "Invalid", "NotFound", "Endpoint"}

Reply == [kind : Failures \cup {"Resolved"}, lasting : BOOLEAN, traced : BOOLEAN]

TypeOK ==
  /\ space \in Spaces /\ alias \subseteq Threads
  /\ state \in [Threads -> {"idle", "handling", "answering", "gone"}]
  /\ call \in [Threads -> Call \cup {Nothing}]
  /\ handler \in [Threads -> Declarable \cup {"none"}]
  /\ reply \in [Threads -> Reply \cup {Nothing}]
  /\ run \in [Threads -> Runs \cup {Nothing}]

Init ==
  /\ space \in Spaces /\ alias \in SUBSET Threads
  /\ state = [t \in Threads |-> "idle"]
  /\ call = [t \in Threads |-> Nothing]
  /\ handler = [t \in Threads |-> "none"]
  /\ reply = [t \in Threads |-> Nothing]
  /\ run = [t \in Threads |-> Nothing]
-----------------------------------------------------------------------------
(* Which scopes a capability covers. *)

(* A second principal takes the first one's grant away. *)
Allows(cap, s) ==
  /\ s \in cap.held /\ s \notin Exclusions
  /\ s \in Principals => cap.held \cap Principals = {s}

Satisfies(cap, s) ==
  \/ cap.root
  \/ s \in Families /\ cap.held \cap Under[s] # {}
  \/ s \notin Families /\ Allows(cap, s)

Passes(cap, scopes) == \A s \in scopes : Satisfies(cap, s)
-----------------------------------------------------------------------------
(* Routing: the first door declared whose pattern matches, in the form the *)
(* peer's mount addresses by, else in the other one.                       *)

Matching(form, name) == {i \in DOMAIN space : name \in space[i][form]}

First(is) == CHOOSE i \in is : \A j \in is : i <= j

Lookup(name, aliasFirst) ==
  LET declared == Matching("declared", name)
      aliased  == Matching("aliased", name)
  IN
  IF declared = {} /\ aliased = {} THEN 0
  ELSE IF (aliasFirst /\ aliased # {}) \/ declared = {} THEN First(aliased)
  ELSE First(declared)

Bound(t, c)  == Lookup(c.name, t \in alias) \in DOMAIN space
DoorOf(t, c) == space[Lookup(c.name, t \in alias)]
-----------------------------------------------------------------------------
(* The floor of a door's description. *)

Every(d)  == UNION {d.actions[v].requires : v \in DOMAIN d.actions}
Marked(d) == {v \in DOMAIN d.actions : d.actions[v].marked}

(* Mutants: operators named Bug_* are what the definition that follows them *)
(* would be with a plausible slip; no specification uses them.              *)
Bug_ExistsFree(d, v) ==
  IF v \in DOMAIN d.actions THEN d.actions[v].requires
  ELSE IF v \in {"Meta", "Exists"} THEN {}
  ELSE Every(d)

RequiredScopes(d, v) ==
  IF v \in DOMAIN d.actions THEN d.actions[v].requires
  ELSE IF v = "Meta" THEN {}
  ELSE IF v = "Exists" /\ "Source" \in DOMAIN d.actions
    THEN d.actions["Source"].requires
  ELSE Every(d)

Bug_MetaReadable(d, v, cap) ==
  /\ Marked(d) # {} /\ v # "Meta"
  /\ v \in DOMAIN d.actions => v \in Marked(d)
  /\ ~Passes(cap, RequiredScopes(d, v))

(* Whether the refusal of v must look like a name bound nowhere. *)
Conceals(d, v, cap) ==
  /\ Marked(d) # {}
  /\ \/ /\ v = "Meta"
        /\ \A u \in DOMAIN d.actions : ~Passes(cap, d.actions[u].requires)
     \/ /\ v # "Meta"
        /\ v \in DOMAIN d.actions => v \in Marked(d)
        /\ ~Passes(cap, RequiredScopes(d, v))

Misses(t, c) ==
  \/ ~Bound(t, c)
  \/ ~c.cap.root /\ Conceals(DoorOf(t, c), c.verb, c.cap)

Admits(t, c) ==
  ~Misses(t, c) /\ Passes(c.cap, RequiredScopes(DoorOf(t, c), c.verb))

(* The verb whose handler answers v: its own, or Source for the Exists of a *)
(* family.                                                                  *)
Answering(d, v) ==
  IF v \in DOMAIN d.actions THEN v
  ELSE IF v = "Exists" /\ ~d.flat /\ "Source" \in DOMAIN d.actions THEN "Source"
  ELSE "none"
-----------------------------------------------------------------------------
(* The replies. *)

Failed(why) == [kind |-> why, lasting |-> FALSE, traced |-> FALSE]

Succeeded(c, lasting) ==
  [kind |-> "Resolved", lasting |-> lasting, traced |-> c.traced]

Replies(t, c, r) ==
  /\ state' = [state EXCEPT ![t] = "answering"]
  /\ call' = [call EXCEPT ![t] = c]
  /\ reply' = [reply EXCEPT ![t] = r]

(* A call is decoded and answered without entering a handler. *)
Answers(t, c, r) ==
  /\ Replies(t, c, r)
  /\ UNCHANGED <<serverVars, handler, run>>

(* The same for a name bound nowhere and for one that is concealed. *)
Unresolved(t, c) ==
  /\ Misses(t, c)
  /\ Answers(t, c, Failed("Unresolved"))

Denied(t, c) ==
  /\ ~Misses(t, c) /\ ~Admits(t, c)
  /\ Answers(t, c, Failed("Denied"))

(* _meta: a description, unless the call asks for a face there is none of. *)
Meta(t, c) ==
  /\ Admits(t, c) /\ c.verb = "Meta"
  /\ \/ c.args = "invalid" /\ Answers(t, c, Failed("Endpoint"))
     \/ c.args # "invalid" /\ Answers(t, c, Succeeded(c, FALSE))

Unanswered(t, c) ==
  /\ Admits(t, c) /\ c.verb # "Meta"
  /\ Answering(DoorOf(t, c), c.verb) = "none"

(* A flat endpoint that is bound exists. *)
FlatExists(t, c) ==
  /\ Unanswered(t, c) /\ DoorOf(t, c).flat /\ c.verb = "Exists"
  /\ Answers(t, c, Succeeded(c, FALSE))

(* _refuse: a verb the door does not declare. *)
Refused(t, c) ==
  /\ Unanswered(t, c) /\ ~(DoorOf(t, c).flat /\ c.verb = "Exists")
  /\ Answers(t, c, Failed("Endpoint"))

Invoked(t, c) ==
  /\ Admits(t, c) /\ c.verb # "Meta"
  /\ Answering(DoorOf(t, c), c.verb) # "none"

(* _invoke and _preflight, for arguments the contract does not admit. *)
BadArguments(t, c) ==
  /\ Invoked(t, c)
  /\ \/ c.args = "missing" /\ Answers(t, c, Failed("Missing"))
     \/ c.args = "invalid" /\ Answers(t, c, Failed("Invalid"))

(* A variable of the module, where each thread needs its own. *)
Bug_RunOfTheServer(t, r) == [u \in Threads |-> r]

(* _RUN.set and _RUN.reset: each thread has a context of its own. *)
RunOf(t, r) == [run EXCEPT ![t] = r]

Enter(t, c) ==
  /\ Invoked(t, c) /\ c.args = "fit"
  /\ state' = [state EXCEPT ![t] = "handling"]
  /\ call' = [call EXCEPT ![t] = c]
  /\ handler' = [handler EXCEPT ![t] = Answering(DoorOf(t, c), c.verb)]
  /\ run' = RunOf(t, c.run)
  /\ UNCHANGED <<serverVars, reply>>
-----------------------------------------------------------------------------
(* A handler's result: text or bytes, None, a Representation of its own     *)
(* that may or may not be cached, or what no representation is made of.     *)
Results == {"data", "none", "lasting", "fleeting", "unusable"}

(* _representation makes one of it; for None only of a write's answer. *)
Representable(v, result) ==
  result \in {"data", "lasting", "fleeting"} \/ (result = "none" /\ v \in Mutating)

Bug_OwnExpiryKept(v, a, result) ==
  result = "lasting" \/ (result = "data" /\ a.cacheable)

(* Whether the representation may be cached. *)
Lasts(v, a, result) ==
  /\ v \notin Mutating
  /\ result = "lasting" \/ (result = "data" /\ a.cacheable)

ActionOf(t) == DoorOf(t, call[t]).actions[handler[t]]

(* Source is answering an Exists. *)
ByDefault(t) == handler[t] # call[t].verb

Leaves(t) ==
  /\ state[t] = "handling"
  /\ handler' = [handler EXCEPT ![t] = "none"]
  /\ run' = RunOf(t, Nothing)
  /\ UNCHANGED serverVars

Return(t, result) ==
  /\ Leaves(t) /\ Representable(handler[t], result)
  /\ LET lasting == IF ByDefault(t) THEN ActionOf(t).cacheable
                    ELSE Lasts(handler[t], ActionOf(t), result)
     IN Replies(t, call[t], Succeeded(call[t], lasting))

(* The handler raises NotFoundError: for an Exists, that is an answer. *)
RaiseNotFound(t) ==
  /\ Leaves(t)
  /\ \/ ByDefault(t) /\ Replies(t, call[t], Succeeded(call[t], ActionOf(t).cacheable))
     \/ ~ByDefault(t) /\ Replies(t, call[t], Failed("NotFound"))

RaiseOther(t) == Leaves(t) /\ Replies(t, call[t], Failed("Endpoint"))

(* _representation raises, outside the try around the handler: dispatch     *)
(* does too, and the thread ends with its connection.                       *)
ReturnUnusable(t, result) ==
  /\ Leaves(t) /\ ~Representable(handler[t], result)
  /\ state' = [state EXCEPT ![t] = "gone"]
  /\ call' = [call EXCEPT ![t] = Nothing]
  /\ UNCHANGED reply

(* The reply is written, and the thread reads on; or the peer is gone. *)
Written(t) ==
  /\ state[t] = "answering"
  /\ \E next \in {"idle", "gone"} : state' = [state EXCEPT ![t] = next]
  /\ call' = [call EXCEPT ![t] = Nothing]
  /\ reply' = [reply EXCEPT ![t] = Nothing]
  /\ UNCHANGED <<serverVars, handler, run>>

Dispatch(t, c) ==
  \/ Unresolved(t, c) \/ Denied(t, c) \/ Meta(t, c) \/ FlatExists(t, c)
  \/ Refused(t, c) \/ BadArguments(t, c) \/ Enter(t, c)

(* A thread reads its peer's next call once the last reply is written. *)
Receives(t) == state[t] = "idle" /\ \E c \in Calls[t] : Dispatch(t, c)

Handles(t) ==
  \/ \E result \in Results : Return(t, result) \/ ReturnUnusable(t, result)
  \/ RaiseNotFound(t) \/ RaiseOther(t)

Next ==
  \E t \in Threads : Receives(t) \/ Handles(t) \/ Written(t)

Spec == Init /\ [][Next]_vars
-----------------------------------------------------------------------------
(* What must hold. *)

(***************************************************************************)
(* No handler runs, and nothing but a description is answered, unless the  *)
(* caller covers every scope of the action that governs the answer: the    *)
(* verb's own, or Source's for an Exists nobody declared, on which a flat  *)
(* door answers without a handler (_resolve, _exists, required_scopes).    *)
(***************************************************************************)
GrantedBeforeAnswered ==
  \A t \in Threads :
    \/ state[t] \notin {"handling", "answering"}
    \/ call[t].verb = "Meta"
    \/ state[t] = "answering" /\ reply[t].kind # "Resolved"
    \/ /\ Bound(t, call[t])
       /\ LET as == DoorOf(t, call[t]).actions
              v  == IF call[t].verb \in DOMAIN as THEN call[t].verb ELSE "Source"
          IN v \in DOMAIN as /\ Passes(call[t].cap, as[v].requires)

(***************************************************************************)
(* To a caller that covers none of its verbs, a door with an existence-    *)
(* sensitive one answers as a name bound nowhere does, whatever the verb,  *)
(* declared or not, Meta included, unless that verb is declared and not    *)
(* marked (conceals).                                                      *)
(***************************************************************************)
HiddenIsUnbound ==
  \A t \in Threads :
    LET c == call[t] IN
    state[t] \in {"handling", "answering"} /\ Bound(t, c) =>
      LET as == DoorOf(t, c).actions IN
      /\ \E v \in DOMAIN as : as[v].marked
      /\ \A v \in DOMAIN as : ~Passes(c.cap, as[v].requires)
      /\ c.verb \in DOMAIN as => as[c.verb].marked
      => state[t] = "answering" /\ reply[t] = Failed("Unresolved")

(* A handler sees the run its own call carried, whatever other connections *)
(* carry meanwhile, and nothing of a run outlives its call (current_run).  *)
RunIsOwn ==
  \A t \in Threads :
    run[t] = IF state[t] = "handling" THEN call[t].run ELSE Nothing

(* The answer to a Sink or a Delete is never cached, whatever the handler  *)
(* returned (_representation).                                             *)
WritesNeverCached ==
  \A t \in Threads :
    state[t] = "answering" /\ call[t].verb \in Mutating => ~reply[t].lasting
=============================================================================
