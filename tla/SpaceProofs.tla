----------------------------- MODULE SpaceProofs -----------------------------
(***************************************************************************)
(* The invariants of Space, for every set of threads, every space and      *)
(* every call.  The argument: what a thread is doing always agrees with    *)
(* what the floor says of the call it is doing it for (ThreadInv), and the *)
(* floor conceals and refuses what the properties say it must (Covered,    *)
(* Hidden).                                                                *)
(***************************************************************************)
EXTENDS Space, TLAPS

(* A call whose handler may be entered, or that is answered without one. *)
Open(t, c) ==
  /\ Admits(t, c)
  /\ \/ c.verb = "Meta"
     \/ Answering(DoorOf(t, c), c.verb) # "none"
     \/ DoorOf(t, c).flat /\ c.verb = "Exists"

(* The reply r fits what the floor says of call c. *)
Fits(t, c, r) ==
  /\ Misses(t, c) => r = Failed("Unresolved")
  /\ r.kind = "Resolved" => Open(t, c)
  /\ c.verb \in Mutating => ~r.lasting

ThreadInv(t) ==
  /\ run[t] = IF state[t] = "handling" THEN call[t].run ELSE Nothing
  /\ state[t] = "handling" =>
       /\ call[t] \in Call
       /\ Invoked(t, call[t])
       /\ handler[t] = Answering(DoorOf(t, call[t]), call[t].verb)
  /\ state[t] = "answering" => call[t] \in Call /\ Fits(t, call[t], reply[t])

IInv == TypeOK /\ \A t \in Threads : ThreadInv(t)
-----------------------------------------------------------------------------
(* Facts about routing and the floor. *)

(* A name that is bound leads to a door of the space. *)
LEMMA DoorFound ==
  ASSUME TypeOK, NEW t, NEW c, Bound(t, c)
  PROVE  IsDoor(DoorOf(t, c))
BY SpacesAssumption DEF TypeOK, Bound, DoorOf

(* A call that the floor leaves open covers the action that governs it. *)
LEMMA Covered ==
  ASSUME TypeOK, NEW t, NEW c, Open(t, c), c.verb # "Meta"
  PROVE  LET as == DoorOf(t, c).actions
             v  == IF c.verb \in DOMAIN as THEN c.verb ELSE "Source"
         IN  v \in DOMAIN as /\ Passes(c.cap, as[v].requires)
<1> DEFINE d == DoorOf(t, c)
<1>1. Bound(t, c) /\ Passes(c.cap, RequiredScopes(d, c.verb))
  BY DEF Open, Admits, Misses
<1>2. d.flat => DOMAIN d.actions = {"Source"}
  BY <1>1, DoorFound DEF IsDoor
<1>3. CASE c.verb \in DOMAIN d.actions
  BY <1>1, <1>3 DEF RequiredScopes
<1>4. CASE c.verb \notin DOMAIN d.actions
  <2>1. c.verb = "Exists" /\ "Source" \in DOMAIN d.actions
    BY <1>2, <1>4 DEF Open, Answering
  <2> QED
    BY <1>1, <1>4, <2>1 DEF RequiredScopes
<1> QED
  BY <1>3, <1>4

(* A marked door that a caller covers no verb of is a miss for it. *)
LEMMA Hidden ==
  ASSUME NEW t, NEW c, Bound(t, c), NEW as, as = DoorOf(t, c).actions,
         \E v \in DOMAIN as : as[v].marked,
         \A v \in DOMAIN as : ~Passes(c.cap, as[v].requires),
         c.verb \in DOMAIN as => as[c.verb].marked
  PROVE  Misses(t, c)
<1> DEFINE d == DoorOf(t, c)
<1>1. ~c.cap.root
  BY DEF Passes, Satisfies
<1>2. Marked(d) # {}
  BY DEF Marked
<1>3. CASE c.verb = "Meta"
  BY <1>1, <1>2, <1>3 DEF Misses, Conceals
<1>4. CASE c.verb # "Meta"
  <2>1. c.verb \in DOMAIN d.actions => c.verb \in Marked(d)
    BY DEF Marked
  <2>2. ~Passes(c.cap, Every(d))
    BY DEF Passes, Every
  <2>3. ~Passes(c.cap, RequiredScopes(d, c.verb))
    BY <1>4, <2>2 DEF RequiredScopes
  <2> QED
    BY <1>1, <1>2, <1>4, <2>1, <2>3 DEF Misses, Conceals
<1> QED
  BY <1>3, <1>4
-----------------------------------------------------------------------------
(* The doors never change: what the floor says of a call stays said. *)
LEMMA FloorStays ==
  ASSUME UNCHANGED serverVars, NEW t, NEW c, call'[t] = c
  PROVE  /\ DoorOf(t, call[t])' = DoorOf(t, c)
         /\ Misses(t, call[t])' <=> Misses(t, c)
         /\ Admits(t, call[t])' <=> Admits(t, c)
BY DEF DoorOf, Misses, Admits, Bound, Lookup, Matching, serverVars

(* A thread that a step leaves alone is as it was. *)
LEMMA Bystander ==
  ASSUME NEW u \in Threads, ThreadInv(u), UNCHANGED serverVars,
         state'[u] = state[u], call'[u] = call[u], handler'[u] = handler[u],
         reply'[u] = reply[u], run'[u] = run[u]
  PROVE  ThreadInv(u)'
BY FloorStays DEF ThreadInv, Fits, Open, Invoked

(* A call answered without a handler, by a reply that fits the floor. *)
LEMMA AnsweredStep ==
  ASSUME IInv, NEW t \in Threads, NEW c \in Call, NEW r \in Reply,
         state[t] = "idle", Answers(t, c, r), Fits(t, c, r)
  PROVE  IInv'
<1>1. TypeOK'
  BY DEF IInv, TypeOK, Answers, Replies, serverVars
<1>2. /\ state'[t] = "answering" /\ call'[t] = c /\ reply'[t] = r
      /\ run'[t] = run[t] /\ UNCHANGED serverVars
  BY DEF IInv, TypeOK, Answers, Replies
<1>3. ThreadInv(t)'
  BY <1>2, FloorStays DEF IInv, ThreadInv, Fits, Open
<1>4. ASSUME NEW u \in Threads, u # t
      PROVE  ThreadInv(u)'
  <2>1. /\ state'[u] = state[u] /\ call'[u] = call[u] /\ handler'[u] = handler[u]
        /\ reply'[u] = reply[u] /\ run'[u] = run[u]
    BY <1>4 DEF IInv, TypeOK, Answers, Replies
  <2> QED
    BY <1>2, <2>1, Bystander DEF IInv
<1> QED
  BY <1>1, <1>3, <1>4 DEF IInv

(* A handler is left with a reply that fits the floor. *)
LEMMA HandledStep ==
  ASSUME IInv, NEW t \in Threads, NEW r \in Reply,
         Leaves(t), Replies(t, call[t], r), Fits(t, call[t], r)
  PROVE  IInv'
<1>1. TypeOK'
  BY DEF IInv, TypeOK, Leaves, RunOf, Replies, serverVars
<1>2. /\ state'[t] = "answering" /\ call'[t] = call[t] /\ reply'[t] = r
      /\ run'[t] = Nothing /\ UNCHANGED serverVars /\ call[t] \in Call
  BY DEF IInv, TypeOK, ThreadInv, Leaves, RunOf, Replies
<1>3. ThreadInv(t)'
  BY <1>2, FloorStays DEF IInv, ThreadInv, Fits, Open
<1>4. ASSUME NEW u \in Threads, u # t
      PROVE  ThreadInv(u)'
  <2>1. /\ state'[u] = state[u] /\ call'[u] = call[u] /\ handler'[u] = handler[u]
        /\ reply'[u] = reply[u] /\ run'[u] = run[u]
    BY <1>4 DEF IInv, TypeOK, Leaves, RunOf, Replies
  <2> QED
    BY <1>2, <2>1, Bystander DEF IInv
<1> QED
  BY <1>1, <1>3, <1>4 DEF IInv
-----------------------------------------------------------------------------
LEMMA ReplyType ==
  /\ \A why \in Failures : Failed(why) \in Reply /\ Failed(why).kind = why
                            /\ ~Failed(why).lasting
  /\ \A c \in Call, lasting \in BOOLEAN :
       Succeeded(c, lasting) \in Reply /\ Succeeded(c, lasting).kind = "Resolved"
       /\ Succeeded(c, lasting).lasting = lasting
BY DEF Failed, Succeeded, Reply, Call, Failures

(* Each call that is dispatched preserves the invariant. *)
LEMMA DispatchStep ==
  ASSUME IInv, NEW t \in Threads, NEW c \in Call, state[t] = "idle", Dispatch(t, c)
  PROVE  IInv'
<1>1. CASE Unresolved(t, c)
  <2>1. Failed("Unresolved") \in Reply /\ Fits(t, c, Failed("Unresolved"))
    BY <1>1, ReplyType DEF Unresolved, Fits, Failures
  <2> QED
    BY <1>1, <2>1, AnsweredStep DEF Unresolved
<1>2. ASSUME ~Misses(t, c), NEW why \in Failures, Answers(t, c, Failed(why))
      PROVE  IInv'
  <2>1. Failed(why) \in Reply /\ Fits(t, c, Failed(why))
    BY <1>2, ReplyType DEF Fits, Failures
  <2> QED
    BY <1>2, <2>1, AnsweredStep
<1>3. ASSUME Open(t, c), Answers(t, c, Succeeded(c, FALSE))
      PROVE  IInv'
  <2>1. ~Misses(t, c)
    BY <1>3 DEF Open, Admits
  <2>2. Succeeded(c, FALSE) \in Reply /\ Fits(t, c, Succeeded(c, FALSE))
    BY <1>3, <2>1, ReplyType DEF Fits
  <2> QED
    BY <1>3, <2>2, AnsweredStep
<1>4. CASE Denied(t, c)
  BY <1>2, <1>4 DEF Denied, Failures
<1>5. CASE Meta(t, c)
  BY <1>2, <1>3, <1>5 DEF Meta, Open, Admits, Failures
<1>6. CASE FlatExists(t, c)
  BY <1>3, <1>6 DEF FlatExists, Unanswered, Open
<1>7. CASE Refused(t, c)
  BY <1>2, <1>7 DEF Refused, Unanswered, Admits, Failures
<1>8. CASE BadArguments(t, c)
  BY <1>2, <1>8 DEF BadArguments, Invoked, Admits, Failures
<1>9. CASE Enter(t, c)
  <2>1. Answering(DoorOf(t, c), c.verb) \in Declarable
    <3>1. IsDoor(DoorOf(t, c))
      BY <1>9, DoorFound DEF IInv, Enter, Invoked, Admits, Misses
    <3> QED
      BY <1>9, <3>1 DEF Enter, Invoked, Answering, IsDoor
  <2>2. TypeOK'
    BY <1>9, <2>1 DEF IInv, TypeOK, Enter, RunOf, Call, serverVars
  <2>3. /\ state'[t] = "handling" /\ call'[t] = c /\ run'[t] = c.run
        /\ handler'[t] = Answering(DoorOf(t, c), c.verb) /\ UNCHANGED serverVars
    BY <1>9 DEF IInv, TypeOK, Enter, RunOf
  <2>4. ThreadInv(t)'
    BY <1>9, <2>3, FloorStays DEF ThreadInv, Enter, Invoked
  <2>5. ASSUME NEW u \in Threads, u # t
        PROVE  ThreadInv(u)'
    <3>1. /\ state'[u] = state[u] /\ call'[u] = call[u] /\ handler'[u] = handler[u]
          /\ reply'[u] = reply[u] /\ run'[u] = run[u]
      BY <1>9, <2>5 DEF IInv, TypeOK, Enter, RunOf
    <3> QED
      BY <2>3, <3>1, Bystander DEF IInv
  <2> QED
    BY <2>2, <2>4, <2>5 DEF IInv
<1> QED
  BY <1>1, <1>4, <1>5, <1>6, <1>7, <1>8, <1>9 DEF Dispatch

(* A handler answers for a call that the floor admitted. *)
LEMMA Handling ==
  ASSUME IInv, NEW t \in Threads, Leaves(t)
  PROVE  /\ call[t] \in Call /\ ~Misses(t, call[t]) /\ Open(t, call[t])
         /\ handler[t] \in DOMAIN DoorOf(t, call[t]).actions
         /\ ActionOf(t) \in Action
         /\ call[t].verb \in Mutating => handler[t] = call[t].verb
<1> DEFINE d == DoorOf(t, call[t])
<1>1. /\ call[t] \in Call /\ Invoked(t, call[t])
      /\ handler[t] = Answering(d, call[t].verb)
  BY DEF IInv, ThreadInv, Leaves
<1>2. ~Misses(t, call[t]) /\ Open(t, call[t]) /\ IsDoor(d)
  BY <1>1, DoorFound DEF IInv, Invoked, Admits, Misses, Open
<1>3. /\ handler[t] \in DOMAIN d.actions
      /\ call[t].verb \in Mutating => handler[t] = call[t].verb
  BY <1>1 DEF Invoked, Answering, Mutating
<1> QED
  BY <1>1, <1>2, <1>3 DEF ActionOf, IsDoor

(* Each way out of a handler preserves the invariant. *)
LEMMA HandlesStep ==
  ASSUME IInv, NEW t \in Threads, Handles(t)
  PROVE  IInv'
<1>1. ASSUME Leaves(t), NEW why \in Failures, Replies(t, call[t], Failed(why))
      PROVE  IInv'
  <2>1. Failed(why) \in Reply /\ Fits(t, call[t], Failed(why))
    BY <1>1, ReplyType, Handling DEF Fits, Failures
  <2> QED
    BY <1>1, <2>1, HandledStep
<1>2. ASSUME Leaves(t), NEW lasting \in BOOLEAN,
             call[t].verb \in Mutating => ~lasting,
             Replies(t, call[t], Succeeded(call[t], lasting))
      PROVE  IInv'
  <2>1. /\ Succeeded(call[t], lasting) \in Reply
        /\ Fits(t, call[t], Succeeded(call[t], lasting))
    BY <1>2, ReplyType, Handling DEF Fits
  <2> QED
    BY <1>2, <2>1, HandledStep
<1>3. ASSUME NEW result \in Results, Return(t, result)
      PROVE  IInv'
  <2> DEFINE lasting == IF ByDefault(t) THEN ActionOf(t).cacheable
                        ELSE Lasts(handler[t], ActionOf(t), result)
  <2>1. Leaves(t) /\ Replies(t, call[t], Succeeded(call[t], lasting))
    BY <1>3 DEF Return
  <2>2. lasting \in BOOLEAN
    BY <2>1, Handling DEF Lasts, Action
  <2>3. call[t].verb \in Mutating => ~lasting
    BY <2>1, Handling DEF ByDefault, Lasts
  <2> QED
    BY <1>2, <2>1, <2>2, <2>3
<1>4. CASE RaiseNotFound(t)
  <2>1. CASE ~ByDefault(t) /\ Replies(t, call[t], Failed("NotFound"))
    BY <1>1, <1>4, <2>1 DEF RaiseNotFound, Failures
  <2>2. CASE ByDefault(t) /\ Replies(t, call[t], Succeeded(call[t], ActionOf(t).cacheable))
    <3>1. ActionOf(t).cacheable \in BOOLEAN /\ call[t].verb \notin Mutating
      BY <1>4, <2>2, Handling DEF RaiseNotFound, ByDefault, Action
    <3> QED
      BY <1>2, <1>4, <2>2, <3>1 DEF RaiseNotFound
  <2> QED
    BY <1>4, <2>1, <2>2 DEF RaiseNotFound
<1>5. CASE RaiseOther(t)
  BY <1>1, <1>5 DEF RaiseOther, Failures
<1>6. ASSUME NEW result \in Results, ReturnUnusable(t, result)
      PROVE  IInv'
  <2>1. TypeOK'
    BY <1>6 DEF IInv, TypeOK, ReturnUnusable, Leaves, RunOf, serverVars
  <2>2. ThreadInv(t)'
    BY <1>6 DEF IInv, TypeOK, ThreadInv, ReturnUnusable, Leaves, RunOf
  <2>3. ASSUME NEW u \in Threads, u # t
        PROVE  ThreadInv(u)'
    <3>1. /\ state'[u] = state[u] /\ call'[u] = call[u] /\ handler'[u] = handler[u]
          /\ reply'[u] = reply[u] /\ run'[u] = run[u] /\ UNCHANGED serverVars
      BY <1>6, <2>3 DEF IInv, TypeOK, ReturnUnusable, Leaves, RunOf
    <3> QED
      BY <3>1, Bystander DEF IInv
  <2> QED
    BY <2>1, <2>2, <2>3 DEF IInv
<1> QED
  BY <1>3, <1>4, <1>5, <1>6 DEF Handles

LEMMA WrittenStep ==
  ASSUME IInv, NEW t \in Threads, Written(t)
  PROVE  IInv'
<1>1. TypeOK'
  BY DEF IInv, TypeOK, Written, serverVars
<1>2. ThreadInv(t)'
  BY DEF IInv, TypeOK, ThreadInv, Written
<1>3. ASSUME NEW u \in Threads, u # t
      PROVE  ThreadInv(u)'
  <2>1. /\ state'[u] = state[u] /\ call'[u] = call[u] /\ handler'[u] = handler[u]
        /\ reply'[u] = reply[u] /\ run'[u] = run[u] /\ UNCHANGED serverVars
    BY <1>3 DEF IInv, TypeOK, Written
  <2> QED
    BY <2>1, Bystander DEF IInv
<1> QED
  BY <1>1, <1>2, <1>3 DEF IInv
-----------------------------------------------------------------------------
LEMMA InitIInv == Init => IInv
<1> SUFFICES ASSUME Init PROVE IInv
  OBVIOUS
<1>1. TypeOK
  BY DEF Init, TypeOK
<1>2. \A t \in Threads : ThreadInv(t)
  BY DEF Init, ThreadInv
<1> QED
  BY <1>1, <1>2 DEF IInv

LEMMA StepIInv == IInv /\ [Next]_vars => IInv'
<1> SUFFICES ASSUME IInv, [Next]_vars
             PROVE  IInv'
  OBVIOUS
<1>1. ASSUME NEW t \in Threads, Receives(t)
      PROVE  IInv'
  <2>1. PICK c \in Calls[t] : Dispatch(t, c)
    BY <1>1 DEF Receives
  <2>2. c \in Call /\ state[t] = "idle"
    BY <1>1, CallsAssumption DEF Receives
  <2> QED
    BY <2>1, <2>2, DispatchStep
<1>2. CASE UNCHANGED vars
  <2>1. TypeOK'
    BY <1>2 DEF IInv, TypeOK, vars, serverVars
  <2>2. ASSUME NEW u \in Threads
        PROVE  ThreadInv(u)'
    BY <1>2, Bystander DEF IInv, vars
  <2> QED
    BY <2>1, <2>2 DEF IInv
<1> QED
  BY <1>1, <1>2, HandlesStep, WrittenStep DEF Next

LEMMA Invariance == Spec => []IInv
BY InitIInv, StepIInv, PTL DEF Spec

(* The variables keep their types, whatever is served and asked for. *)
THEOREM TypeCorrect == Spec => []TypeOK
<1>1. IInv => TypeOK
  BY DEF IInv
<1> QED
  BY <1>1, Invariance, PTL

(***************************************************************************)
(* No handler runs, and nothing but a description is answered, without the *)
(* scopes of the action that governs it (_resolve, _exists).               *)
(***************************************************************************)
THEOREM Granted == Spec => []GrantedBeforeAnswered
<1>1. IInv => GrantedBeforeAnswered
  <2> SUFFICES ASSUME IInv, NEW t \in Threads,
                      state[t] \in {"handling", "answering"},
                      call[t].verb # "Meta",
                      state[t] = "answering" => reply[t].kind = "Resolved"
               PROVE  /\ Bound(t, call[t])
                      /\ LET as == DoorOf(t, call[t]).actions
                             v  == IF call[t].verb \in DOMAIN as THEN call[t].verb
                                   ELSE "Source"
                         IN v \in DOMAIN as /\ Passes(call[t].cap, as[v].requires)
    BY DEF GrantedBeforeAnswered
  <2>1. Open(t, call[t])
    BY DEF IInv, ThreadInv, Fits, Invoked, Open
  <2> QED
    BY <2>1, Covered DEF IInv, Open, Admits, Misses
<1> QED
  BY <1>1, Invariance, PTL

(***************************************************************************)
(* To a caller that covers none of its verbs, a door that is existence-    *)
(* sensitive answers as a name bound nowhere does (conceals).              *)
(***************************************************************************)
THEOREM HiddenLikeUnbound == Spec => []HiddenIsUnbound
<1>1. IInv => HiddenIsUnbound
  <2> SUFFICES ASSUME IInv, NEW t \in Threads,
                      state[t] \in {"handling", "answering"}, Bound(t, call[t]),
                      NEW as, as = DoorOf(t, call[t]).actions,
                      \E v \in DOMAIN as : as[v].marked,
                      \A v \in DOMAIN as : ~Passes(call[t].cap, as[v].requires),
                      call[t].verb \in DOMAIN as => as[call[t].verb].marked
               PROVE  state[t] = "answering" /\ reply[t] = Failed("Unresolved")
    BY DEF HiddenIsUnbound
  <2>1. Misses(t, call[t])
    BY Hidden
  <2> QED
    BY <2>1 DEF IInv, ThreadInv, Fits, Invoked, Admits
<1> QED
  BY <1>1, Invariance, PTL

(***************************************************************************)
(* A handler sees the run of its own call, and no run outlives its call    *)
(* (current_run).                                                          *)
(***************************************************************************)
THEOREM RunsKeptApart == Spec => []RunIsOwn
<1>1. IInv => RunIsOwn
  BY DEF IInv, ThreadInv, Fits, RunIsOwn
<1> QED
  BY <1>1, Invariance, PTL

(* No answer to a write is cached (_representation). *)
THEOREM WritesAreNotCached == Spec => []WritesNeverCached
<1>1. IInv => WritesNeverCached
  BY DEF IInv, ThreadInv, Fits, WritesNeverCached
<1> QED
  BY <1>1, Invariance, PTL
=============================================================================
