---------------------------- MODULE TicTacToeProofs ----------------------------
(***************************************************************************)
(* Proofs about TicTacToe, for any number of requests, any paths and       *)
(* methods, and boards of any size and winning rows.                       *)
(***************************************************************************)
EXTENDS TicTacToe, FiniteSetTheorems, SequenceTheorems, TLAPS

Marks == {"X", "O", "-"}
Boards == [Cells -> Marks]
Statuses == {"X", "O", "-"} \X {"to play", "draw", "has won"}

\* The views a request is routed to.
Served == {"page", "static", "play", "reset", "status", "board"}
Writing == {"play", "reset"}

-----------------------------------------------------------------------------
(* The round trips that are left. *)

BoardSteps == {Step("template", <<>>)} \cup
              {Step(what, c) : what \in {"square", "empty", "taken"}, c \in Cells}

\* What is left of a status view, and of a reply once its write is done.
StatusLeft == {<<Step("template", <<>>), Step("status", <<>>)>>, <<Step("status", <<>>)>>,
               <<Step("turn", <<>>)>>, <<Step("over", <<>>)>>, <<Step("won", <<>>)>>}

\* What is left of a write before it is done.
WriteLeft(view) ==
  {<<Step("spelling", view.cell), Step("sink", view.cell), Step("template", <<>>), Step("status", <<>>)>>,
   <<Step("sink", view.cell), Step("template", <<>>), Step("status", <<>>)>>,
   <<Step("sink", <<>>), Step("template", <<>>), Step("status", <<>>)>>}

PageLeft == {<<Step("template", <<>>), Step("entries", <<>>)>>, <<Step("entries", <<>>)>>}

Left(view) ==
  CASE view.kind = "board" -> Seq(BoardSteps) \ {<<>>}
    [] view.kind = "page" -> PageLeft
    [] view.kind = "status" -> StatusLeft
    [] view.kind \in Writing -> StatusLeft \cup WriteLeft(view)
    [] OTHER -> {}

-----------------------------------------------------------------------------
(* The inductive invariant: a request `r`, what was written for it `w`, and *)
(* the statuses of its game `s`, whose board is `b`.                        *)

\* A request is where its handler can be, with the round trips that place has
\* left; only a method that writes gets to a write.
Placed(r) ==
  /\ r = [at |-> r.at, verb |-> r.verb, view |-> r.view, todo |-> r.todo,
          shown |-> r.shown, said |-> r.said, code |-> r.code, kept |-> r.kept]
  /\ r.at \in {"new", "describing", "serving", "failed", "answered", "dropped"}
  /\ r.at \in {"describing", "serving", "failed"} => r.view.kind \in Served
  /\ r.at = "serving" => /\ r.todo \in Left(r.view)
                         /\ r.view.kind \in Writing => r.verb \in {"POST", "PUT"}
  /\ r.at = "failed" => ~Known(r.view.game)
  /\ r.kept \in Failures \cup {"none"}

\* A board's squares are shown or still to be read, unless one failed; and all
\* shown once it is answered.
Awaited(todo, c) == \E i \in DOMAIN todo : todo[i].cell = c
Whole(r) ==
  r.view.kind = "board" =>
    /\ r.at = "serving" /\ r.kept = "none" =>
         \A c \in Cells : c \in DOMAIN r.shown \/ Awaited(r.todo, c)
    /\ r.at = "answered" /\ r.code = 200 => Cells \subseteq DOMAIN r.shown

\* A write was done for a request that got past its Sink, of a game the host
\* has, and "ok" is said only of a write that was done.
Told(r, w) ==
  /\ w # <<>> => /\ r.at \in {"serving", "answered"}
                 /\ r.at = "serving" => r.todo \in StatusLeft
                 /\ r.at = "answered" => r.code \in {200, 500, 503}
                 /\ Known(r.view.game)
                 /\ r.verb \in {"POST", "PUT"}
                 /\ w = << <<Prefix(r.view.game), r.view.kind, r.view.cell>> >>
  /\ r.said = "ok" => w # <<>>

\* What a request was told still holds of the board while what follows from it
\* is not read, unless the game was reset.
Holds(r, s, b) ==
  \A i \in DOMAIN r.todo :
    LET step == r.todo[i]
    IN  /\ step.what = "taken" => b[step.cell] # "-"
        /\ step.what = "turn" => \E mark \in {"X", "O"} : <<mark, "to play">> \in s
        /\ step.what = "over" => Winner(b) # "-"
        /\ step.what = "won" => Winner(b) \in {"X", "O"}

\* What is shown: no empty square as taken, and a status the game has had, or
\* the torn one of a game that changed.
Right(shown, s) ==
  /\ \A p \in DOMAIN shown \ {<<"status">>} : shown[p] # "-"
  /\ <<"status">> \in DOMAIN shown =>
       \/ shown[ <<"status">> ] \in s
       \/ shown[ <<"status">> ] = <<"-", "to play">> /\ \E x, y \in s : x # y

\* Nothing is shown, and nothing is left that follows from another read.
Unread(r) ==
  /\ DOMAIN r.shown = {}
  /\ \A i \in DOMAIN r.todo : r.todo[i].what \notin {"taken", "turn", "over", "won"}

\* A request shows nothing before its write, and what it shows after it, or
\* after its first read, is of a board the game has had since.
Fresh(r, s, b) ==
  /\ s \subseteq Statuses \cup {Reset}
  /\ r.at \in {"new", "describing"} => s = {} /\ DOMAIN r.shown = {}
  /\ r.at = "serving" =>
       /\ s = {} => Unread(r)
       /\ s # {} => Known(r.view.game) /\ Status(b) \in s
       /\ r.view.kind \in Writing /\ r.todo \notin StatusLeft => DOMAIN r.shown = {}
       /\ Reset \notin s => Holds(r, s, b)
  /\ Reset \notin s => Right(r.shown, s)

Keeps(r, w, s, b) == Placed(r) /\ Told(r, w) /\ Fresh(r, s, b) /\ Whole(r)

\* The board of a request's game, where the host has that game.
BoardOf(r) == IF Known(r.view.game) THEN board[Prefix(r.view.game)] ELSE Empty

Kept(t) == Keeps(req[t], wrote[t], since[t], BoardOf(req[t]))

TypeOK ==
  /\ board \in [Games \cup {"root"} -> Boards]
  /\ req = [t \in Threads |-> req[t]]
  /\ wrote = [t \in Threads |-> wrote[t]]
  /\ since = [t \in Threads |-> since[t]]

IInv == TypeOK /\ \A t \in Threads : Kept(t)

-----------------------------------------------------------------------------
(* Boards. *)

\* A move is made while nobody has won, and takes no mark away.
LEMMA MoveAdds ==
  ASSUME NEW b \in Boards, NEW c \in Cells, Legal(b, c)
  PROVE  /\ Moved(b, c) \in Boards
         /\ Winner(b) = "-"
         /\ \A d \in Cells : b[d] # "-" => Moved(b, c)[d] = b[d]
BY DEF Boards, Marks, Legal, Moved, Turn

LEMMA EmptyBoard == Empty \in Boards
BY DEF Empty, Boards, Marks

\* The status of a board, by its winner and its turn.
LEMMA StatusTells ==
  ASSUME NEW b \in Boards
  PROVE  /\ Winner(b) \in {"X", "O", "-", "draw"}
         /\ Turn(b) \in Marks
         /\ Turn(b) = "-" <=> Winner(b) # "-"
         /\ Status(b) \in Statuses
         /\ Winner(b) = "-" => Status(b) = <<Turn(b), "to play">>
         /\ Winner(b) = "draw" => Status(b) = <<"-", "draw">>
         /\ Winner(b) \in {"X", "O"} => Status(b) = <<Winner(b), "has won">>
<1>1. Winner(b) \in {"X", "O", "-", "draw"}
  BY DEF Winner
<1>2. Turn(b) \in Marks /\ (Turn(b) = "-" <=> Winner(b) # "-")
  BY DEF Turn, Marks
<1>3. /\ Winner(b) = "-" => Status(b) = <<Turn(b), "to play">>
      /\ Winner(b) = "draw" => Status(b) = <<"-", "draw">>
      /\ Winner(b) \in {"X", "O"} => Status(b) = <<Winner(b), "has won">>
  BY DEF Status
<1>4. \A x \in Marks : /\ <<x, "to play">> \in Statuses /\ <<x, "draw">> \in Statuses
                      /\ <<x, "has won">> \in Statuses
  BY DEF Statuses, Marks
<1>5. Status(b) \in Statuses
  <2>1. Winner(b) # "draw" => Winner(b) \in Marks
    BY <1>1 DEF Marks
  <2>2. "-" \in Marks
    BY DEF Marks
  <2> QED BY <1>1, <1>2, <1>3, <1>4, <2>1, <2>2
<1> QED BY <1>1, <1>2, <1>3, <1>5

\* Statuses are finitely many, and a reset is none of them.
LEMMA FewStatuses ==
  /\ IsFiniteSet(Statuses \cup {Reset})
  /\ Reset \notin Statuses
<1>1. Reset \notin Statuses
  BY DEF Reset, Statuses
<1>2. ASSUME NEW x, NEW y, NEW z PROVE IsFiniteSet({x, y, z})
  <2>1. IsFiniteSet({x} \cup {y}) /\ IsFiniteSet(({x} \cup {y}) \cup {z})
    BY FS_Singleton, FS_AddElement
  <2>2. ({x} \cup {y}) \cup {z} = {x, y, z}
    OBVIOUS
  <2> QED BY <2>1, <2>2
<1>3. IsFiniteSet({"X", "O", "-"} \X {"to play", "draw", "has won"})
  BY <1>2, FS_Product
<1>4. IsFiniteSet(Statuses \cup {Reset})
  BY <1>3, FS_AddElement DEF Statuses
<1> QED BY <1>1, <1>4

\* Two different members make more than one.
LEMMA TwoAreMore ==
  ASSUME NEW S, IsFiniteSet(S), \E x, y \in S : x # y
  PROVE  Cardinality(S) > 1
<1>1. Cardinality(S) \in Nat
  BY FS_CardinalityType
<1>2. Cardinality(S) # 0
  BY FS_EmptySet
<1>3. Cardinality(S) # 1
  BY FS_Singleton
<1> QED BY <1>1, <1>2, <1>3

-----------------------------------------------------------------------------
(* Requests. *)

\* A path is refused before any routing, or leads to a view that is served.
LEMMA Targets ==
  ASSUME NEW path
  PROVE  Target(path) \in {Malform, NoView} \/ Target(path).kind \in Served
<1> DEFINE names == SelectSeq(path, LAMBDA s : s # "")
<1>1. ASSUME NEW local, NEW game
      PROVE  Local(local, game) = NoView \/ Local(local, game).kind \in Served
  BY DEF Local, Served, View
<1>2. ASSUME NEW game, NEW cell, NEW kind \in Served PROVE View(kind, game, cell).kind \in Served
  BY DEF View
<1> DEFINE Good(v) == v \in {Malform, NoView} \/ v.kind \in Served
           found ==
             CASE names = <<>> -> View("page", "-", <<>>)
               [] Len(names) = 2 /\ names[1] = "game" ->
                    IF names[2] = Delimited THEN Malform ELSE View("page", names[2], <<>>)
               [] Len(names) = 2 /\ names[1] = "static" /\ names[2] \in StaticFiles ->
                    View("static", "-", <<>>)
               [] Len(names) > 5 /\ names[1] = "game" /\ SubSeq(names, 3, 5) = GAME ->
                    Local(SubSeq(names, 6, Len(names)), names[2])
               [] Len(names) > 3 /\ SubSeq(names, 1, 3) = GAME ->
                    Local(SubSeq(names, 4, Len(names)), "-")
               [] OTHER -> NoView
<1>3. \A game : Good(View("page", game, <<>>)) /\ Good(View("static", game, <<>>))
  BY <1>2 DEF Served
<1>4. Good(Malform) /\ Good(NoView)
  OBVIOUS
<1>5. \A local, game : Good(Local(local, game))
  BY <1>1
<1>6. Good(found)
  <2> HIDE DEF names, Good
  <2> QED BY <1>3, <1>4, <1>5, Zenon
<1>7. Target(path) \in {Malform, found}
  <2> USE DEF Target
  <2> HIDE DEF Good
  <2> QED BY Zenon
<1>8. Good(Target(path))
  BY <1>4, <1>6, <1>7
<1> QED BY <1>8

LEMMA RefusedViews ==
  /\ Malform.kind = "malformed" /\ NoView.kind = "none"
  /\ Malform # NoView
BY DEF Malform, NoView

\* What is asked for in which order, spelled out.
LEMMA Scripts ==
  /\ StatusView = <<Step("template", <<>>), Step("status", <<>>)>>
  /\ \A view : view.kind = "play" =>
       Script(view) = <<Step("spelling", view.cell), Step("sink", view.cell),
                        Step("template", <<>>), Step("status", <<>>)>>
  /\ \A view : view.kind = "reset" =>
       Script(view) = <<Step("sink", <<>>), Step("template", <<>>), Step("status", <<>>)>>
  /\ \A view : view.kind = "status" => Script(view) = StatusView
  /\ \A view : view.kind = "board" => Script(view) = <<Step("template", <<>>)>> \o Squares
  /\ \A view : view.kind = "page" =>
       Script(view) = <<Step("template", <<>>), Step("entries", <<>>)>>
<1>1. StatusView = <<Step("template", <<>>), Step("status", <<>>)>>
  BY DEF StatusView
<1>2. ASSUME NEW view, view.kind = "play"
      PROVE  Script(view) = <<Step("spelling", view.cell), Step("sink", view.cell),
                              Step("template", <<>>), Step("status", <<>>)>>
  <2>1. Script(view) = <<Step("spelling", view.cell), Step("sink", view.cell)>> \o StatusView
    BY <1>2 DEF Script
  <2>2. ASSUME NEW x, NEW y, NEW z, NEW u PROVE <<x, y>> \o <<z, u>> = <<x, y, z, u>>
    <3>1. PICK S : S = {x, y, z, u}
      OBVIOUS
    <3>2. <<x, y>> \in Seq(S) /\ <<z, u>> \in Seq(S) /\ <<x, y, z, u>> \in Seq(S)
      BY <3>1
    <3>3. PICK q : q = <<x, y>> \o <<z, u>>
      OBVIOUS
    <3>4. q \in Seq(S) /\ Len(q) = 4 /\ q[1] = x /\ q[2] = y /\ q[3] = z /\ q[4] = u
      BY <3>2, <3>3, ConcatProperties
    <3>5. PICK p \in Seq(S) : p = <<x, y, z, u>>
      BY <3>2
    <3>6. Len(p) = Len(q) /\ \A i \in 1 .. Len(p) : p[i] = q[i]
      BY <3>4, <3>5
    <3>7. p = q
      BY <3>4, <3>6, SeqEqual
    <3> QED BY <3>3, <3>5, <3>7
  <2> QED BY <1>1, <2>1, <2>2
<1>3. ASSUME NEW view, view.kind = "reset"
      PROVE  Script(view) = <<Step("sink", <<>>), Step("template", <<>>), Step("status", <<>>)>>
  <2>1. Script(view) = <<Step("sink", <<>>)>> \o StatusView
    BY <1>3 DEF Script
  <2>2. ASSUME NEW y, NEW z, NEW u PROVE <<y>> \o <<z, u>> = <<y, z, u>>
    <3>1. PICK S : S = {y, z, u}
      OBVIOUS
    <3>2. <<y>> \in Seq(S) /\ <<z, u>> \in Seq(S) /\ <<y, z, u>> \in Seq(S)
      BY <3>1
    <3>3. PICK q : q = <<y>> \o <<z, u>>
      OBVIOUS
    <3>4. q \in Seq(S) /\ Len(q) = 3 /\ q[1] = y /\ q[2] = z /\ q[3] = u
      BY <3>2, <3>3, ConcatProperties
    <3>5. PICK p \in Seq(S) : p = <<y, z, u>>
      BY <3>2
    <3>6. Len(p) = Len(q) /\ \A i \in 1 .. Len(p) : p[i] = q[i]
      BY <3>4, <3>5
    <3>7. p = q
      BY <3>4, <3>6, SeqEqual
    <3> QED BY <3>3, <3>5, <3>7
  <2> QED BY <1>1, <2>1, <2>2
<1>4. ASSUME NEW view, view.kind = "status" PROVE Script(view) = StatusView
  BY <1>4 DEF Script
<1>5. ASSUME NEW view, view.kind = "board"
      PROVE  Script(view) = <<Step("template", <<>>)>> \o Squares
  BY <1>5 DEF Script
<1>6. ASSUME NEW view, view.kind = "page"
      PROVE  Script(view) = <<Step("template", <<>>), Step("entries", <<>>)>>
  BY <1>6 DEF Script
<1> QED BY <1>1, <1>2, <1>3, <1>4, <1>5, <1>6

\* The squares of a board are read one by one.
LEMMA AllSquares ==
  /\ Squares \in Seq(BoardSteps)
  /\ \A i \in DOMAIN Squares : Squares[i].what = "square"
  /\ \A c \in Cells : \E i \in DOMAIN Squares : Squares[i].cell = c
<1>1. IsFiniteSet(Cells)
  BY TicTacToeAssumption
<1>2. PICK n \in Nat : n = Cardinality(Cells)
  BY <1>1, FS_CardinalityType
<1>3. PICK f \in Bijection(1 .. n, Cells) : TRUE
  BY <1>1, <1>2, FS_CardinalityType DEF ExistsBijection
<1>4. f \in [1 .. n -> Cells] /\ IsInjective(f)
  BY <1>3 DEF Bijection, Injection, IsInjective
<1>5. SetToSeq(Cells) \in [1 .. n -> Cells] /\ IsInjective(SetToSeq(Cells))
  BY <1>2, <1>4 DEF SetToSeq
<1>6. Squares = [i \in 1 .. n |-> Step("square", SetToSeq(Cells)[i])]
  BY <1>2 DEF Squares
<1>7. \A i \in 1 .. n : Step("square", SetToSeq(Cells)[i]) \in BoardSteps
  BY <1>5 DEF BoardSteps
<1>8. Squares \in [1 .. n -> BoardSteps]
  BY <1>6, <1>7
<1>9. Squares \in Seq(BoardSteps)
  BY <1>8
<1>10. ASSUME NEW c \in Cells PROVE \E i \in 1 .. n : SetToSeq(Cells)[i] = c
  <2>1. PICK g \in [1 .. n -> Cells] : g = SetToSeq(Cells) /\ IsInjective(g)
    BY <1>5
  <2>2. g \in Injection(1 .. n, Cells)
    BY <2>1 DEF Injection, IsInjective
  <2>3. IsFiniteSet(1 .. n) /\ Cardinality(1 .. n) = n
    BY FS_Interval
  <2>4. g \in Surjection(1 .. n, Cells)
    BY <1>1, <1>2, <2>2, <2>3, FS_Injection
  <2> QED BY <2>1, <2>4 DEF Surjection
<1>11. \A c \in Cells : \E i \in DOMAIN Squares : Squares[i].cell = c
  BY <1>6, <1>10 DEF Step
<1> QED BY <1>6, <1>9, <1>11 DEF Step

\* The first of a few round trips, and the rest.
LEMMA Few ==
  ASSUME NEW x, NEW y, NEW z, NEW u
  PROVE  /\ <<x>> \in Seq({x}) /\ Len(<<x>>) = 1
         /\ Head(<<x>>) = x /\ Tail(<<x>>) = <<>> /\ <<x>> # <<>>
         /\ <<x, y>> \in Seq({x, y}) /\ Len(<<x, y>>) = 2
         /\ Head(<<x, y>>) = x /\ Tail(<<x, y>>) = <<y>> /\ <<x, y>> # <<>>
         /\ <<x, y, z>> \in Seq({x, y, z}) /\ Len(<<x, y, z>>) = 3
         /\ Head(<<x, y, z>>) = x /\ Tail(<<x, y, z>>) = <<y, z>> /\ <<x, y, z>> # <<>>
         /\ <<x, y, z, u>> \in Seq({x, y, z, u}) /\ Len(<<x, y, z, u>>) = 4
         /\ Head(<<x, y, z, u>>) = x /\ Tail(<<x, y, z, u>>) = <<y, z, u>> /\ <<x, y, z, u>> # <<>>
<1>1. /\ <<x>> \in Seq({x}) /\ Len(<<x>>) = 1 /\ Head(<<x>>) = x /\ Tail(<<x>>) = <<>> /\ <<x>> # <<>>
  OBVIOUS
<1>2. /\ <<x, y>> \in Seq({x, y}) /\ Len(<<x, y>>) = 2
      /\ Head(<<x, y>>) = x /\ Tail(<<x, y>>) = <<y>> /\ <<x, y>> # <<>>
  OBVIOUS
<1>3. /\ <<x, y, z>> \in Seq({x, y, z}) /\ Len(<<x, y, z>>) = 3
      /\ Head(<<x, y, z>>) = x /\ Tail(<<x, y, z>>) = <<y, z>> /\ <<x, y, z>> # <<>>
  OBVIOUS
<1>4. /\ <<x, y, z, u>> \in Seq({x, y, z, u}) /\ Len(<<x, y, z, u>>) = 4
      /\ Head(<<x, y, z, u>>) = x /\ Tail(<<x, y, z, u>>) = <<y, z, u>> /\ <<x, y, z, u>> # <<>>
  OBVIOUS
<1> QED BY <1>1, <1>2, <1>3, <1>4

\* A request that is answered, refused, or looked into again.
LEMMA AnsweredIs ==
  ASSUME NEW r, Placed(r), NEW code
  PROVE  Answered(r, code) = [at |-> "answered", verb |-> r.verb, view |-> r.view, todo |-> <<>>,
                              shown |-> r.shown, said |-> r.said, code |-> code, kept |-> r.kept]
<1>1. PICK at, verb, view, todo, shown, said, old, kept :
        r = [at |-> at, verb |-> verb, view |-> view, todo |-> todo,
             shown |-> shown, said |-> said, code |-> old, kept |-> kept]
  <2>1. r = [at |-> r.at, verb |-> r.verb, view |-> r.view, todo |-> r.todo,
             shown |-> r.shown, said |-> r.said, code |-> r.code, kept |-> r.kept]
    BY DEF Placed
  <2> QED BY <2>1, Zenon
<1>2. PICK a : a = [r EXCEPT !.at = "answered", !.code = code, !.todo = <<>>]
  OBVIOUS
<1>3. a = [at |-> "answered", verb |-> verb, view |-> view, todo |-> <<>>,
           shown |-> shown, said |-> said, code |-> code, kept |-> kept]
  BY ONLY <1>1, <1>2
<1> QED BY <1>1, <1>2, <1>3 DEF Answered

LEMMA AnsweredKeeps ==
  ASSUME NEW r, NEW w, NEW s, NEW b, NEW code, Keeps(r, w, s, b),
         r.at \in {"new", "describing", "serving", "failed"},
         w # <<>> => code \in {200, 500, 503}, r.view.kind = "board" => code # 200
  PROVE  Keeps(Answered(r, code), w, s, b)
<1>1. PICK a : a = Answered(r, code)
  OBVIOUS
<1>2. a = [at |-> "answered", verb |-> r.verb, view |-> r.view, todo |-> <<>>,
           shown |-> r.shown, said |-> r.said, code |-> code, kept |-> r.kept]
  BY <1>1 DEF Keeps, Placed, Answered
<1>3. Placed(a)
  BY <1>2 DEF Keeps, Placed
<1>4. Told(a, w)
  BY <1>2 DEF Keeps, Told
<1>5. Fresh(a, s, b)
  BY <1>2 DEF Keeps, Fresh
<1>6. Whole(a)
  BY <1>2 DEF Whole
<1> QED BY <1>1, <1>3, <1>4, <1>5, <1>6 DEF Keeps

LEMMA RaisedKeeps ==
  ASSUME NEW r, NEW w, NEW s, NEW b, NEW error, Keeps(r, w, s, b),
         r.at \in {"describing", "serving"},
         \/ error = "Unresolved" /\ ~Known(r.view.game)
         \/ error \in Failures
         \/ error \in {"InvalidArgument", "Conflict"} /\ w = <<>>
  PROVE  Keeps(Raised(r, error), w, s, b)
<1>1. CASE error = "Unresolved" /\ ~Known(r.view.game)
  <2>1. PICK a : a = Raised(r, error)
    OBVIOUS
  <2>2. r.view.game # "-"
    BY <1>1 DEF Known
  <2>3. a = [at |-> "failed", verb |-> r.verb, view |-> r.view, todo |-> <<>>,
             shown |-> r.shown, said |-> r.said, code |-> r.code, kept |-> r.kept]
    BY <1>1, <2>1, <2>2 DEF Keeps, Placed, Raised
  <2>4. Placed(a)
    BY <1>1, <2>3 DEF Keeps, Placed
  <2>5. Told(a, w)
    BY <1>1, <2>3 DEF Keeps, Told
  <2>6. Fresh(a, s, b)
    BY <2>3 DEF Keeps, Fresh
  <2>7. Whole(a)
    BY <2>3 DEF Whole
  <2> QED BY <2>1, <2>4, <2>5, <2>6, <2>7 DEF Keeps
<1>2. CASE error \in Failures \/ (error \in {"InvalidArgument", "Conflict"} /\ w = <<>>)
  <2>1. error # "Unresolved"
    BY <1>2, TicTacToeAssumption
  <2>2. Raised(r, error) = Answered(r, STATUS_OF(error))
    BY <2>1 DEF Raised
  <2>3. error \in Failures => STATUS_OF(error) \in {500, 503}
    BY TicTacToeAssumption DEF STATUS_OF
  <2>4. STATUS_OF(error) # 200
    BY DEF STATUS_OF
  <2> QED BY <1>2, <2>2, <2>3, <2>4, AnsweredKeeps
<1> QED BY <1>1, <1>2

\* What is served of a view starts with nothing read of it; a write gets that
\* far only by a method that writes.
LEMMA RoutedKeeps ==
  ASSUME NEW r, NEW w, NEW s, NEW b, NEW known \in BOOLEAN, Keeps(r, w, s, b),
         r.at \in {"new", "describing"}, r.view.kind \in Served
  PROVE  Keeps(Routed(r, known), w, s, b)
<1>1. w = <<>> /\ s = {} /\ DOMAIN r.shown = {}
  BY DEF Keeps, Told, Fresh
<1>2. CASE Respond(r.verb, r.view, known) # 0
  <2>1. Respond(r.verb, r.view, known) # 200
    BY DEF Respond
  <2> QED BY <1>1, <1>2, <2>1, AnsweredKeeps DEF Routed
<1>3. CASE Respond(r.verb, r.view, known) = 0 /\ r.view.kind = "static"
  BY <1>1, <1>3, AnsweredKeeps DEF Routed
<1>4. CASE Respond(r.verb, r.view, known) = 0 /\ r.view.kind # "static"
  <2>1. PICK a : a = Routed(r, known)
    OBVIOUS
  <2>2. PICK script : script = Script(r.view)
    OBVIOUS
  <2>3. a = [at |-> "serving", verb |-> r.verb, view |-> r.view, todo |-> script,
             shown |-> r.shown, said |-> r.said, code |-> r.code, kept |-> r.kept]
    BY <1>4, <2>1, <2>2 DEF Keeps, Placed, Routed
  <2>4. r.view.kind \in Writing => r.verb \in {"POST", "PUT"}
    BY <1>4 DEF Respond, Methods, METHODS, READ, WRITE, Writing
  <2>5. /\ script \in Left(r.view)
        /\ \A i \in DOMAIN script : script[i].what \notin {"taken", "turn", "over", "won"}
    <3>1. CASE r.view.kind = "play"
      <4>1. script = <<Step("spelling", r.view.cell), Step("sink", r.view.cell),
                       Step("template", <<>>), Step("status", <<>>)>>
        BY <2>2, <3>1, Scripts
      <4>2. script \in Left(r.view)
        BY <3>1, <4>1 DEF Left, WriteLeft, Writing
      <4>3. \A i \in DOMAIN script :
              script[i] \in {Step("spelling", r.view.cell), Step("sink", r.view.cell),
                            Step("template", <<>>), Step("status", <<>>)}
        BY <4>1
      <4> QED BY <4>2, <4>3 DEF Step
    <3>2. CASE r.view.kind = "reset"
      BY <2>2, <3>2, Scripts DEF Left, WriteLeft, Writing, Step
    <3>3. CASE r.view.kind = "status"
      BY <2>2, <3>3, Scripts DEF Left, StatusLeft, Step
    <3>4. CASE r.view.kind = "page"
      <4>1. script = <<Step("template", <<>>), Step("entries", <<>>)>>
        BY <2>2, <3>4, Scripts
      <4>2. script \in Left(r.view)
        BY <3>4, <4>1 DEF Left, PageLeft, Writing
      <4>3. \A i \in DOMAIN script : script[i] \in {Step("template", <<>>), Step("entries", <<>>)}
        BY <4>1
      <4> QED BY <4>2, <4>3 DEF Step
    <3>5. CASE r.view.kind = "board"
      <4>1. script = <<Step("template", <<>>)>> \o Squares
        BY <2>2, <3>5, Scripts
      <4>2. PICK squares \in Seq(BoardSteps) :
              squares = Squares /\ \A i \in DOMAIN squares : squares[i].what = "square"
        BY AllSquares
      <4>3. PICK first \in Seq(BoardSteps) :
              /\ first = <<Step("template", <<>>)>> /\ Len(first) = 1
              /\ first[1].what = "template"
        <5>1. PICK step \in BoardSteps : step = Step("template", <<>>)
          BY DEF BoardSteps
        <5>2. step.what = "template"
          BY <5>1 DEF Step
        <5>3. <<step>> \in Seq(BoardSteps) /\ Len(<<step>>) = 1 /\ <<step>>[1] = step
          OBVIOUS
        <5> QED BY <5>1, <5>2, <5>3
      <4>4. /\ script \in Seq(BoardSteps) /\ Len(script) = 1 + Len(squares)
            /\ \A i \in 1 .. 1 + Len(squares) :
                 script[i] = IF i <= 1 THEN first[i] ELSE squares[i - 1]
        BY <4>1, <4>2, <4>3, ConcatProperties
      <4>5. \A i \in DOMAIN script : script[i].what \in {"template", "square"}
        BY <4>2, <4>3, <4>4
      <4>6. script # <<>>
        BY <4>2, <4>4
      <4>7. Left(r.view) = Seq(BoardSteps) \ {<<>>}
        BY <3>5 DEF Left, Writing
      <4> QED BY <4>4, <4>5, <4>6, <4>7
    <3> QED BY <1>4, <3>1, <3>2, <3>3, <3>4, <3>5 DEF Served
  <2>6. Placed(a)
    BY <2>3, <2>4, <2>5 DEF Keeps, Placed
  <2>7. Told(a, w)
    BY <1>1, <2>3 DEF Keeps, Told
  <2>8. Fresh(a, s, b)
    <3>1. Unread(a)
      BY <1>1, <2>3, <2>5 DEF Unread
    <3>2. Holds(a, s, b)
      BY <2>3, <2>5 DEF Holds
    <3> QED BY <1>1, <2>3, <3>1, <3>2 DEF Keeps, Fresh
  <2>9. Whole(a)
    <3>1. ASSUME r.view.kind = "board", NEW c \in Cells
          PROVE  Awaited(script, c)
      <4>1. script = <<Step("template", <<>>)>> \o Squares
        BY <2>2, <3>1, Scripts
      <4>2. PICK squares \in Seq(BoardSteps), k \in Nat :
              squares = Squares /\ k \in DOMAIN squares /\ squares[k].cell = c
        BY AllSquares
      <4>3. PICK first \in Seq(BoardSteps) : first = <<Step("template", <<>>)>> /\ Len(first) = 1
        <5>1. PICK step \in BoardSteps : step = Step("template", <<>>)
          BY DEF BoardSteps
        <5>2. <<step>> \in Seq(BoardSteps) /\ Len(<<step>>) = 1
          OBVIOUS
        <5> QED BY <5>1, <5>2
      <4>4. /\ script \in Seq(BoardSteps) /\ Len(script) = 1 + Len(squares)
            /\ \A i \in 1 .. 1 + Len(squares) :
                 script[i] = IF i <= 1 THEN first[i] ELSE squares[i - 1]
        BY <4>1, <4>2, <4>3, ConcatProperties
      <4>5. k + 1 \in DOMAIN script /\ script[k + 1].cell = c
        BY <4>2, <4>4
      <4> QED BY <4>5 DEF Awaited
    <3> QED BY <2>3, <3>1 DEF Whole
  <2> QED BY <2>1, <2>6, <2>7, <2>8, <2>9 DEF Keeps
<1> QED BY <1>2, <1>3, <1>4

-----------------------------------------------------------------------------
(* Reading on. *)

\* One or two round trips.
LEMMA OneOrTwo ==
  ASSUME NEW x, NEW y, NEW todo \in {<<x>>, <<x, y>>}
  PROVE  (\E S : todo \in Seq(S)) /\ todo # <<>> /\ Head(todo) = x
<1>1. CASE todo = <<x>>
  BY <1>1, Few
<1>2. CASE todo = <<x, y>>
  BY <1>2, Few
<1> QED BY <1>1, <1>2

\* There is a first round trip left, and what it is.
LEMMA LeftSteps ==
  ASSUME NEW view, NEW todo \in Left(view)
  PROVE  /\ \E S : todo \in Seq(S)
         /\ todo # <<>>
         /\ Head(todo).what \in {"taken", "empty"} => Head(todo).cell \in Cells
         /\ view.kind \in Writing /\ todo \notin StatusLeft =>
              /\ todo \in WriteLeft(view)
              /\ Head(todo).what \in {"spelling", "sink"}
         /\ Head(todo).what \in {"spelling", "sink"} => todo \notin StatusLeft /\ view.kind \in Writing
         /\ Head(todo).what \in {"square", "empty", "taken"} => todo \notin StatusLeft /\ view.kind = "board"
<1>1. ASSUME todo \in StatusLeft
      PROVE  /\ \E S : todo \in Seq(S)
             /\ todo # <<>>
             /\ Head(todo).what \in {"template", "status", "turn", "over", "won"}
  <2>1. ASSUME NEW what, todo = <<Step(what, <<>>)>>
        PROVE  (\E S : todo \in Seq(S)) /\ todo # <<>> /\ Head(todo).what = what
    <3>1. PICK x : x = Step(what, <<>>)
      OBVIOUS
    <3>2. x.what = what
      BY <3>1 DEF Step
    <3>3. todo = <<x>>
      BY <2>1, <3>1
    <3> QED BY <3>2, <3>3, OneOrTwo
  <2>2. ASSUME todo = <<Step("template", <<>>), Step("status", <<>>)>>
        PROVE  (\E S : todo \in Seq(S)) /\ todo # <<>> /\ Head(todo).what = "template"
    <3>1. PICK x, y : x = Step("template", <<>>) /\ y = Step("status", <<>>)
      OBVIOUS
    <3>2. x.what = "template"
      BY <3>1 DEF Step
    <3>3. todo = <<x, y>>
      BY <2>2, <3>1
    <3> QED BY <3>2, <3>3, OneOrTwo
  <2> QED BY <1>1, <2>1, <2>2 DEF StatusLeft
<1>2. ASSUME todo \in PageLeft
      PROVE  /\ \E S : todo \in Seq(S)
             /\ todo # <<>>
             /\ Head(todo).what \in {"template", "entries"}
  <2>1. ASSUME todo = <<Step("entries", <<>>)>>
        PROVE  (\E S : todo \in Seq(S)) /\ todo # <<>> /\ Head(todo).what = "entries"
    <3>1. PICK x : x = Step("entries", <<>>)
      OBVIOUS
    <3>2. x.what = "entries"
      BY <3>1 DEF Step
    <3>3. todo = <<x>>
      BY <2>1, <3>1
    <3> QED BY <3>2, <3>3, OneOrTwo
  <2>2. ASSUME todo = <<Step("template", <<>>), Step("entries", <<>>)>>
        PROVE  (\E S : todo \in Seq(S)) /\ todo # <<>> /\ Head(todo).what = "template"
    <3>1. PICK x, y : x = Step("template", <<>>) /\ y = Step("entries", <<>>)
      OBVIOUS
    <3>2. x.what = "template"
      BY <3>1 DEF Step
    <3>3. todo = <<x, y>>
      BY <2>2, <3>1
    <3> QED BY <3>2, <3>3, OneOrTwo
  <2> QED BY <1>2, <2>1, <2>2 DEF PageLeft
<1>3. ASSUME todo \in WriteLeft(view)
      PROVE  /\ \E S : todo \in Seq(S)
             /\ todo # <<>>
             /\ Head(todo).what \in {"spelling", "sink"}
  <2>1. ASSUME todo = <<Step("spelling", view.cell), Step("sink", view.cell),
                        Step("template", <<>>), Step("status", <<>>)>>
        PROVE  (\E S : todo \in Seq(S)) /\ todo # <<>> /\ Head(todo).what = "spelling"
    <3>1. PICK x, y, z, u : x = Step("spelling", view.cell) /\ y = Step("sink", view.cell) /\ z = Step("template", <<>>) /\ u = Step("status", <<>>)
      OBVIOUS
    <3>2. x.what = "spelling"
      BY <3>1 DEF Step
    <3>3. todo = <<x, y, z, u>>
      BY <2>1, <3>1
    <3>4. <<x, y, z, u>> \in Seq({x, y, z, u}) /\ <<x, y, z, u>> # <<>> /\ Head(<<x, y, z, u>>) = x
      OBVIOUS
    <3> QED BY <3>2, <3>3, <3>4
  <2>2. ASSUME NEW cell, todo = <<Step("sink", cell), Step("template", <<>>), Step("status", <<>>)>>
        PROVE  (\E S : todo \in Seq(S)) /\ todo # <<>> /\ Head(todo).what = "sink"
    <3>1. PICK x, y, z : x = Step("sink", cell) /\ y = Step("template", <<>>) /\ z = Step("status", <<>>)
      OBVIOUS
    <3>2. x.what = "sink"
      BY <3>1 DEF Step
    <3>3. todo = <<x, y, z>>
      BY <2>2, <3>1
    <3>4. <<x, y, z>> \in Seq({x, y, z}) /\ <<x, y, z>> # <<>> /\ Head(<<x, y, z>>) = x
      OBVIOUS
    <3> QED BY <3>2, <3>3, <3>4
  <2> QED BY <1>3, <2>1, <2>2 DEF WriteLeft
<1>4. ASSUME todo \in Seq(BoardSteps) \ {<<>>}
      PROVE  /\ Head(todo).what \in {"taken", "empty"} => Head(todo).cell \in Cells
             /\ Head(todo).what \notin {"spelling", "sink"}
  <2>1. Head(todo) \in BoardSteps
    BY <1>4
  <2> QED BY <2>1 DEF BoardSteps, Step
<1>5. CASE view.kind = "board"
  <2>1. todo \in Seq(BoardSteps) \ {<<>>} /\ view.kind \notin Writing
    BY <1>5 DEF Left, Writing
  <2> QED BY <1>1, <1>4, <1>5, <2>1
<1>6. CASE view.kind = "page"
  BY <1>2, <1>6 DEF Left, Writing
<1>7. CASE view.kind = "status"
  BY <1>1, <1>7 DEF Left, Writing
<1>8. CASE view.kind \in Writing
  <2>1. todo \in StatusLeft \cup WriteLeft(view)
    BY <1>8 DEF Left, Writing
  <2> QED BY <1>1, <1>3, <1>8, <2>1
<1> QED BY <1>5, <1>6, <1>7, <1>8 DEF Left

\* A square that is read again is one of the board's.
LEMMA TakenIsASquare ==
  ASSUME NEW view, NEW todo \in Left(view), NEW i \in DOMAIN todo, todo[i].what = "taken"
  PROVE  todo[i].cell \in Cells
<1>1. ASSUME todo \in StatusLeft \cup PageLeft PROVE FALSE
  <2>1. \A what \in {"template", "status", "turn", "over", "won", "entries"} :
          Step(what, <<>>).what # "taken"
    BY DEF Step
  <2>2. ASSUME NEW x, NEW y, todo \in {<<x>>, <<x, y>>} PROVE todo[i] \in {x, y}
    BY <2>2
  <2> QED BY <1>1, <2>1, <2>2 DEF StatusLeft, PageLeft
<1>2. ASSUME todo \in WriteLeft(view) PROVE FALSE
  <2>1. \A what \in {"spelling", "sink", "template", "status"} :
          \A cell : Step(what, cell).what # "taken"
    BY DEF Step
  <2>2. ASSUME NEW x, NEW y, NEW z, NEW u, todo \in {<<x, y, z>>, <<x, y, z, u>>}
        PROVE  todo[i] \in {x, y, z, u}
    BY <2>2
  <2> QED BY <1>2, <2>1, <2>2 DEF WriteLeft
<1>3. CASE view.kind = "board"
  <2>1. todo \in Seq(BoardSteps)
    BY <1>3 DEF Left, Writing
  <2>2. todo[i] \in BoardSteps
    BY <2>1
  <2> QED BY <2>2 DEF BoardSteps, Step
<1>4. CASE view.kind # "board"
  <2>1. todo \in StatusLeft \cup PageLeft \cup WriteLeft(view)
    BY <1>4 DEF Left, Writing
  <2> QED BY <1>1, <1>2, <2>1
<1> QED BY <1>3, <1>4

\* What a read is followed by, if by anything.
LEMMA Follows ==
  ASSUME NEW step, NEW value
  PROVE  /\ step.what = "square" =>
              FollowUp(step, value) = <<Step(IF value = "-" THEN "empty" ELSE "taken", step.cell)>>
         /\ step.what = "status" =>
              FollowUp(step, value) = <<Step(IF value = "-" THEN "turn" ELSE "over", <<>>)>>
         /\ step.what = "over" /\ value # "draw" => FollowUp(step, value) = <<Step("won", <<>>)>>
         /\ step.what = "over" /\ value = "draw" => FollowUp(step, value) = <<>>
         /\ step.what \notin {"square", "status", "over"} => FollowUp(step, value) = <<>>
BY DEF FollowUp

\* Each round trip that is left was left before, or follows from the one made.
LEMMA NextIsOld ==
  ASSUME NEW S, NEW todo \in Seq(S), todo # <<>>, NEW follow, NEW x, follow \in {<<>>, <<x>>},
         NEW next, next = follow \o Tail(todo)
  PROVE  /\ next \in Seq(S \cup {x})
         /\ next = <<>> => follow = <<>>
         /\ \A i \in DOMAIN next :
              (follow = <<x>> /\ next[i] = x) \/ \E j \in DOMAIN todo : next[i] = todo[j]
<1>1. PICK T : T = S \cup {x}
  OBVIOUS
<1>2. todo \in Seq(T) /\ follow \in Seq(T)
  <2>1. S \subseteq T /\ x \in T
    BY <1>1
  <2>2. todo \in Seq(T)
    BY <2>1, SeqMonotonic
  <2>3. <<>> \in Seq(T) /\ <<x>> \in Seq(T)
    BY <2>1
  <2> QED BY <2>2, <2>3
<1>3. PICK rest \in Seq(T) :
        /\ rest = Tail(todo) /\ Len(rest) = Len(todo) - 1 /\ Len(todo) > 0
        /\ \A i \in 1 .. Len(rest) : rest[i] = todo[i + 1]
  <2>1. PICK rest : rest = Tail(todo)
    OBVIOUS
  <2>2. /\ rest \in Seq(T) /\ Len(rest) = Len(todo) - 1
        /\ \A i \in 1 .. Len(rest) : rest[i] = todo[i + 1]
    BY <1>2, <2>1, HeadTailProperties
  <2>3. Len(todo) > 0
    BY <1>2, EmptySeq
  <2> QED BY <2>1, <2>2, <2>3
<1>4. /\ next \in Seq(T) /\ Len(next) = Len(follow) + Len(rest)
      /\ \A i \in 1 .. Len(follow) + Len(rest) :
           next[i] = IF i <= Len(follow) THEN follow[i] ELSE rest[i - Len(follow)]
  BY <1>2, <1>3, ConcatProperties
<1>7. next = <<>> => follow = <<>>
  <2>1. next = follow \o rest
    BY <1>3
  <2>2. follow \o rest = <<>> <=> follow = <<>> /\ rest = <<>>
    BY <1>2, ConcatEqualIffEmpty
  <2> QED BY <2>1, <2>2
<1>8. ASSUME NEW i \in DOMAIN next
      PROVE  (follow = <<x>> /\ next[i] = x) \/ \E j \in DOMAIN todo : next[i] = todo[j]
  <2>1. i \in 1 .. Len(follow) + Len(rest)
    BY <1>4
  <2>2. CASE i <= Len(follow)
    <3>1. follow = <<x>>
      BY <2>1, <2>2
    <3> QED BY <1>4, <2>1, <2>2, <3>1
  <2>3. CASE ~(i <= Len(follow))
    <3>1. i - Len(follow) \in 1 .. Len(rest) /\ next[i] = rest[i - Len(follow)]
      BY <1>2, <1>3, <1>4, <2>1, <2>3
    <3>2. i - Len(follow) + 1 \in DOMAIN todo /\ next[i] = todo[i - Len(follow) + 1]
      BY <1>2, <1>3, <3>1
    <3> QED BY <3>2
  <2> QED BY <2>2, <2>3
<1> QED BY <1>1, <1>4, <1>7, <1>8

\* After a read that nothing follows the rest is left, and after the last read
\* what follows it.
LEMMA Appended ==
  /\ \A x : <<>> \o <<x>> = <<x>> /\ <<x>> \o <<>> = <<x>>
  /\ \A x, y, z : <<>> \o <<x, y, z>> = <<x, y, z>>
  /\ \A x, y : <<>> \o <<x, y>> = <<x, y>>
  /\ <<>> \o <<>> = <<>>
<1>1. ASSUME NEW x PROVE <<>> \o <<x>> = <<x>> /\ <<x>> \o <<>> = <<x>>
  <2>1. <<x>> \in Seq({x})
    OBVIOUS
  <2> QED BY <2>1, ConcatEmptySeq
<1>2. ASSUME NEW x, NEW y, NEW z PROVE <<>> \o <<x, y, z>> = <<x, y, z>>
  <2>1. <<x, y, z>> \in Seq({x, y, z})
    OBVIOUS
  <2> QED BY <2>1, ConcatEmptySeq
<1>3. ASSUME NEW x, NEW y PROVE <<>> \o <<x, y>> = <<x, y>>
  <2>1. <<x, y>> \in Seq({x, y})
    OBVIOUS
  <2> QED BY <2>1, ConcatEmptySeq
<1>4. <<>> \o <<>> = <<>>
  <2>1. <<>> \in Seq({})
    OBVIOUS
  <2> QED BY <2>1, ConcatEmptySeq
<1> QED BY <1>1, <1>2, <1>3, <1>4

\* A status view goes on as a status view.
LEMMA StatusGoesOn ==
  ASSUME NEW todo \in StatusLeft, NEW value, NEW next, next = FollowUp(Head(todo), value) \o Tail(todo)
  PROVE  next \in StatusLeft \cup {<<>>}
<1>1. CASE todo = <<Step("template", <<>>), Step("status", <<>>)>>
  <2>1. PICK x, y : x = Step("template", <<>>) /\ y = Step("status", <<>>)
    OBVIOUS
  <2>2. Head(todo) = x /\ Tail(todo) = <<y>> /\ todo \in Seq({x, y}) /\ todo # <<>>
    BY <1>1, <2>1, Few
  <2>3. FollowUp(x, value) = <<>>
    BY <2>1, Follows DEF Step
  <2>4. next = <<y>>
    BY <2>2, <2>3, Appended
  <2> QED BY <2>1, <2>4 DEF StatusLeft
<1>2. ASSUME NEW what \in {"status", "turn", "over", "won"}, todo = <<Step(what, <<>>)>>
      PROVE  next \in StatusLeft \cup {<<>>}
  <2>1. PICK x : x = Step(what, <<>>) /\ x.what = what
    <3>1. Step(what, <<>>).what = what
      BY DEF Step
    <3> QED BY <3>1
  <2>2. Head(todo) = x /\ Tail(todo) = <<>> /\ todo \in Seq({x}) /\ todo # <<>>
    BY <1>2, <2>1, Few
  <2>3. FollowUp(x, value) \in {<<>>, <<Step("turn", <<>>)>>, <<Step("over", <<>>)>>, <<Step("won", <<>>)>>}
    <3>1. CASE what = "status"
      BY <2>1, <3>1, Follows
    <3>2. CASE what = "over"
      BY <2>1, <3>2, Follows
    <3>3. CASE what \in {"turn", "won"}
      BY <2>1, <3>3, Follows
    <3> QED BY <3>1, <3>2, <3>3
  <2>4. next = FollowUp(x, value)
    BY <2>2, <2>3, Appended
  <2> QED BY <2>3, <2>4 DEF StatusLeft
<1> QED BY <1>1, <1>2 DEF StatusLeft

\* A view of a board goes on as one.
LEMMA BoardGoesOn ==
  ASSUME NEW todo \in Seq(BoardSteps), todo # <<>>, NEW value, NEW next,
         next = FollowUp(Head(todo), value) \o Tail(todo)
  PROVE  next \in Seq(BoardSteps)
<1>1. PICK step \in BoardSteps : step = Head(todo)
  OBVIOUS
<1>2. PICK x \in BoardSteps : FollowUp(step, value) \in {<<>>, <<x>>}
  <2>1. CASE step.what = "square"
    <3>1. step.cell \in Cells
      BY <2>1 DEF BoardSteps, Step
    <3>2. PICK x : x = Step(IF value = "-" THEN "empty" ELSE "taken", step.cell)
      OBVIOUS
    <3>3. x \in BoardSteps
      BY <3>1, <3>2 DEF BoardSteps
    <3> QED BY <2>1, <3>2, <3>3, Follows
  <2>2. CASE step.what # "square"
    <3>1. step.what \in {"template", "empty", "taken"}
      BY <2>2 DEF BoardSteps, Step
    <3>2. Step("template", <<>>) \in BoardSteps
      BY DEF BoardSteps
    <3> QED BY <3>1, <3>2, Follows
  <2> QED BY <2>1, <2>2
<1>3. PICK follow \in Seq(BoardSteps) : follow = FollowUp(step, value)
  <2>1. <<>> \in Seq(BoardSteps) /\ <<x>> \in Seq(BoardSteps)
    OBVIOUS
  <2> QED BY <1>2, <2>1
<1>4. PICK rest \in Seq(BoardSteps) : rest = Tail(todo)
  BY HeadTailProperties
<1> QED BY <1>1, <1>3, <1>4, ConcatProperties

\* What is left after a read is what its view may have left.
LEMMA GoesOn ==
  ASSUME NEW r, r.todo \in Left(r.view), NEW step, step = Head(r.todo), step.what # "sink",
         NEW value, NEW next, next = FollowUp(step, value) \o Tail(r.todo), next # <<>>
  PROVE  /\ next \in Left(r.view)
         /\ r.todo \in StatusLeft => next \in StatusLeft
<1>1. ASSUME r.todo \in StatusLeft PROVE next \in StatusLeft
  <2>1. next \in StatusLeft \cup {<<>>}
    BY <1>1, StatusGoesOn
  <2> QED BY <2>1
<1>2. CASE r.view.kind = "board"
  <2>1. Left(r.view) = Seq(BoardSteps) \ {<<>>}
    BY <1>2 DEF Left, Writing
  <2>2. next \in Seq(BoardSteps)
    BY <2>1, BoardGoesOn
  <2> QED BY <1>1, <2>1, <2>2
<1>3. CASE r.view.kind = "page"
  <2>1. Left(r.view) = PageLeft
    BY <1>3 DEF Left, Writing
  <2>2. PICK x, y : x = Step("template", <<>>) /\ y = Step("entries", <<>>)
    OBVIOUS
  <2>3. FollowUp(x, value) = <<>> /\ FollowUp(y, value) = <<>>
    BY <2>2, Follows DEF Step
  <2>4. CASE r.todo = <<x, y>>
    <3>1. step = x /\ Tail(r.todo) = <<y>> /\ r.todo \in Seq({x, y}) /\ r.todo # <<>>
      BY <2>4, Few
    <3>2. next = <<y>>
      BY <2>3, <3>1, Appended
    <3> QED BY <1>1, <2>1, <2>2, <3>2 DEF PageLeft
  <2>5. CASE r.todo = <<y>>
    <3>1. Head(r.todo) = y /\ Tail(r.todo) = <<>> /\ r.todo \in Seq({y}) /\ r.todo # <<>>
      BY <2>5, Few
    <3>2. next = <<>>
      BY <2>3, <3>1, Appended
    <3> QED BY <3>2
  <2> QED BY <2>1, <2>2, <2>4, <2>5 DEF PageLeft
<1>4. CASE r.view.kind = "status"
  BY <1>1, <1>4 DEF Left, Writing
<1>5. CASE r.view.kind \in Writing
  <2>1. Left(r.view) = StatusLeft \cup WriteLeft(r.view)
    BY <1>5 DEF Left, Writing
  <2>2. CASE r.todo \in StatusLeft
    BY <1>1, <2>1, <2>2
  <2>3. CASE r.todo \in WriteLeft(r.view)
    <3>1. PICK x, y, z, u : /\ x = Step("spelling", r.view.cell) /\ y = Step("sink", r.view.cell)
                            /\ z = Step("template", <<>>) /\ u = Step("status", <<>>)
      OBVIOUS
    <3>2. \A cell : Head(<<Step("sink", cell), z, u>>).what = "sink"
      BY DEF Step
    <3>3. r.todo = <<x, y, z, u>>
      BY <2>3, <3>1, <3>2 DEF WriteLeft
    <3>4. step = x /\ Tail(r.todo) = <<y, z, u>> /\ r.todo \in Seq({x, y, z, u}) /\ r.todo # <<>>
      BY <3>3, Few
    <3>5. FollowUp(x, value) = <<>>
      BY <3>1, Follows DEF Step
    <3>6. next = <<y, z, u>>
      BY <3>4, <3>5, Appended
    <3> QED BY <1>1, <2>1, <3>1, <3>6 DEF WriteLeft
  <2> QED BY <2>1, <2>2, <2>3
<1> QED BY <1>2, <1>3, <1>4, <1>5 DEF Left


\* What follows a read of a board still holds of that board.
LEMMA StillHolds ==
  ASSUME NEW r, NEW s, NEW b \in Boards, r.todo \in Left(r.view), Holds(r, s, b),
         NEW step, step = Head(r.todo), NEW value, value = Answer(step, b),
         NEW new, new.todo = FollowUp(step, value) \o Tail(r.todo),
         NEW s2, s \subseteq s2, Status(b) \in s2
  PROVE  Holds(new, s2, b)
<1>1. PICK S : r.todo \in Seq(S) /\ r.todo # <<>>
  BY LeftSteps
<1>2. step = r.todo[1] /\ 1 \in DOMAIN r.todo
  BY <1>1
<1> DEFINE Leads(x) ==
             \/ step.what = "square" /\ x = Step(IF value = "-" THEN "empty" ELSE "taken", step.cell)
             \/ step.what = "status" /\ x = Step(IF value = "-" THEN "turn" ELSE "over", <<>>)
             \/ step.what = "over" /\ value # "draw" /\ x = Step("won", <<>>)
<1>3. PICK x : /\ FollowUp(step, value) \in {<<>>, <<x>>}
               /\ FollowUp(step, value) = <<x>> => Leads(x)
  <2>1. CASE step.what = "square"
    <3>1. PICK x : x = Step(IF value = "-" THEN "empty" ELSE "taken", step.cell)
      OBVIOUS
    <3>2. FollowUp(step, value) = <<x>> /\ Leads(x)
      BY <2>1, <3>1, Follows
    <3> HIDE DEF Leads
    <3> QED BY <3>2
  <2>2. CASE step.what = "status"
    <3>1. PICK x : x = Step(IF value = "-" THEN "turn" ELSE "over", <<>>)
      OBVIOUS
    <3>2. FollowUp(step, value) = <<x>> /\ Leads(x)
      BY <2>2, <3>1, Follows
    <3> HIDE DEF Leads
    <3> QED BY <3>2
  <2>3. CASE step.what = "over" /\ value # "draw"
    <3>1. PICK x : x = Step("won", <<>>)
      OBVIOUS
    <3>2. FollowUp(step, value) = <<x>> /\ Leads(x)
      BY <2>3, <3>1, Follows
    <3> HIDE DEF Leads
    <3> QED BY <3>2
  <2>4. CASE \/ step.what \notin {"square", "status", "over"}
             \/ step.what = "over" /\ value = "draw"
    <3>1. FollowUp(step, value) = <<>>
      BY <2>4, Follows
    <3>2. \A x : <<>> # <<x>>
      OBVIOUS
    <3> HIDE DEF Leads
    <3> QED BY <3>1, <3>2
  <2> HIDE DEF Leads
  <2> QED BY <2>1, <2>2, <2>3, <2>4
<1>4. ASSUME NEW i \in DOMAIN new.todo
      PROVE  \/ FollowUp(step, value) = <<x>> /\ new.todo[i] = x
             \/ \E j \in DOMAIN r.todo : new.todo[i] = r.todo[j]
  <2>1. PICK follow, next : follow = FollowUp(step, value) /\ next = new.todo
    OBVIOUS
  <2>2. follow \in {<<>>, <<x>>} /\ next = follow \o Tail(r.todo)
    BY <1>3, <2>1
  <2>3. \A k \in DOMAIN next :
          (follow = <<x>> /\ next[k] = x) \/ \E j \in DOMAIN r.todo : next[k] = r.todo[j]
    BY <1>1, <2>2, NextIsOld
  <2> QED BY <2>1, <2>3
<1>5. ASSUME NEW j \in DOMAIN r.todo
      PROVE  /\ r.todo[j].what = "taken" => b[r.todo[j].cell] # "-"
             /\ r.todo[j].what = "turn" => \E mark \in {"X", "O"} : <<mark, "to play">> \in s2
             /\ r.todo[j].what = "over" => Winner(b) # "-"
             /\ r.todo[j].what = "won" => Winner(b) \in {"X", "O"}
  BY DEF Holds
<1>6. ASSUME FollowUp(step, value) = <<x>>
      PROVE  /\ x.what = "taken" => b[x.cell] # "-"
             /\ x.what = "turn" => \E mark \in {"X", "O"} : <<mark, "to play">> \in s2
             /\ x.what = "over" => Winner(b) # "-"
             /\ x.what = "won" => Winner(b) \in {"X", "O"}
  <2>1. CASE step.what = "square" /\ x = Step(IF value = "-" THEN "empty" ELSE "taken", step.cell)
    <3>1. value = b[step.cell]
      BY <2>1 DEF Answer
    <3> QED BY <2>1, <3>1 DEF Step
  <2>2. CASE step.what = "status" /\ x = Step(IF value = "-" THEN "turn" ELSE "over", <<>>)
    <3>1. value = Winner(b)
      BY <2>2 DEF Answer
    <3>2. Winner(b) = "-" => Turn(b) \in {"X", "O"} /\ Status(b) = <<Turn(b), "to play">>
      BY StatusTells DEF Marks
    <3> QED BY <2>2, <3>1, <3>2 DEF Step
  <2>3. CASE step.what = "over" /\ value # "draw" /\ x = Step("won", <<>>)
    <3>1. value = Winner(b)
      BY <2>3 DEF Answer
    <3>2. Winner(b) # "-"
      BY <1>2, <1>5, <2>3
    <3>3. Winner(b) \in {"X", "O"}
      BY <2>3, <3>1, <3>2, StatusTells
    <3> QED BY <2>3, <3>3 DEF Step
  <2> QED BY <1>3, <1>6, <2>1, <2>2, <2>3
<1> QED BY <1>4, <1>5, <1>6 DEF Holds

\* What a read shows is right by the board it read.
LEMMA ShownRight ==
  ASSUME NEW r, NEW s, NEW b \in Boards, r.todo \in Left(r.view), Holds(r, s, b), Right(r.shown, s),
         s = {} => Unread(r), s # {} => Status(b) \in s,
         NEW step, step = Head(r.todo), NEW value, value = Answer(step, b),
         NEW s2, s2 = IF s = {} THEN {Status(b)} ELSE s,
         NEW shows, shows = Shows(step, value),
         NEW new, new = [p \in DOMAIN r.shown \cup DOMAIN shows |->
                           IF p \in DOMAIN shows THEN shows[p] ELSE r.shown[p]]
  PROVE  Right(new, s2)
<1>1. PICK S : r.todo \in Seq(S) /\ r.todo # <<>>
  BY LeftSteps
<1>2. step = r.todo[1] /\ 1 \in DOMAIN r.todo
  BY <1>1
<1>3. /\ step.what = "taken" => b[step.cell] # "-"
      /\ step.what = "turn" => \E mark \in {"X", "O"} : <<mark, "to play">> \in s
      /\ step.what = "over" => Winner(b) # "-"
      /\ step.what = "won" => Winner(b) \in {"X", "O"}
  BY <1>2 DEF Holds
<1>4. step.what \in {"taken", "turn", "over", "won"} => s # {}
  BY <1>2 DEF Unread
<1>5. Status(b) \in s2 /\ s \subseteq s2
  OBVIOUS
<1>6. ASSUME step.what \in {"taken", "empty"} PROVE step.cell # <<"status">>
  <2>1. step.cell \in STRING \X STRING
    BY <1>6, LeftSteps, TicTacToeAssumption
  <2>2. \A c \in STRING \X STRING : c # <<"status">>
    OBVIOUS
  <2> QED BY <2>1, <2>2
<1>7. Right(r.shown, s2)
  BY <1>5 DEF Right
<1>8. CASE DOMAIN shows = {}
  BY <1>7, <1>8 DEF Right
<1>9. ASSUME NEW word, shows = [p \in {<<"status">>} |-> word],
             \/ word \in s2
             \/ word = <<"-", "to play">> /\ \E x, y \in s2 : x # y
      PROVE  Right(new, s2)
  <2>1. DOMAIN shows = {<<"status">>} /\ shows[ <<"status">> ] = word
    BY <1>9
  <2> QED BY <1>7, <1>9, <2>1 DEF Right
<1>10. ASSUME NEW mark, shows = [c \in {step.cell} |-> mark], mark # "-",
              step.what \in {"taken", "empty"}
       PROVE  Right(new, s2)
  <2>1. DOMAIN shows = {step.cell} /\ shows[step.cell] = mark /\ step.cell # <<"status">>
    BY <1>6, <1>10
  <2> QED BY <1>7, <1>10, <2>1 DEF Right
<1>11. CASE step.what = "taken"
  <2>1. value = b[step.cell]
    BY <1>11 DEF Answer
  <2>2. shows = [c \in {step.cell} |-> value]
    BY <1>11 DEF Shows
  <2> QED BY <1>3, <1>10, <1>11, <2>1, <2>2
<1>12. CASE step.what = "empty"
  <2>1. shows = [c \in {step.cell} |-> IF value = "-" THEN "open" ELSE "closed"]
    BY <1>12 DEF Shows
  <2>2. PICK mark \in {"open", "closed"} : mark = IF value = "-" THEN "open" ELSE "closed"
    OBVIOUS
  <2>3. shows = [c \in {step.cell} |-> mark] /\ mark # "-"
    BY <2>1, <2>2
  <2> QED BY <1>10, <1>12, <2>3
<1>13. CASE step.what = "turn"
  <2>1. value = Turn(b)
    BY <1>13 DEF Answer
  <2>2. shows = [p \in {<<"status">>} |-> <<value, "to play">>]
    BY <1>13 DEF Shows
  <2>3. CASE Winner(b) = "-"
    <3>1. PICK word : word = <<value, "to play">>
      OBVIOUS
    <3>2. word = Status(b)
      BY <2>1, <2>3, <3>1, StatusTells
    <3>3. shows = [p \in {<<"status">>} |-> word]
      BY <2>2, <3>1
    <3> QED BY <1>5, <1>9, <3>2, <3>3
  <2>4. CASE Winner(b) # "-"
    <3>1. value = "-"
      BY <2>1, <2>4, StatusTells
    <3>2. PICK mark \in {"X", "O"} : <<mark, "to play">> \in s2
      BY <1>3, <1>5, <1>13
    <3>3. Status(b) # <<mark, "to play">>
      <4>1. \/ Status(b) = <<"-", "draw">>
            \/ Status(b) = <<Winner(b), "has won">>
        BY <2>4, StatusTells
      <4>2. <<"-", "draw">>[2] = "draw" /\ <<Winner(b), "has won">>[2] = "has won"
            /\ <<mark, "to play">>[2] = "to play"
        OBVIOUS
      <4> QED BY <4>1, <4>2
    <3>4. PICK word : word = <<"-", "to play">>
      OBVIOUS
    <3>5. shows = [p \in {<<"status">>} |-> word]
      BY <2>2, <3>1, <3>4
    <3> QED BY <1>5, <1>9, <3>2, <3>3, <3>4, <3>5
  <2> QED BY <2>3, <2>4
<1>14. CASE step.what = "over"
  <2>1. value = Winner(b)
    BY <1>14 DEF Answer
  <2>2. CASE value = "draw"
    <3>1. shows = [p \in {<<"status">>} |-> <<"-", "draw">>]
      BY <1>14, <2>2 DEF Shows
    <3>2. Status(b) = <<"-", "draw">>
      BY <2>1, <2>2, StatusTells
    <3> QED BY <1>5, <1>9, <3>1, <3>2
  <2>3. CASE value # "draw"
    <3>1. DOMAIN shows = {}
      BY <1>14, <2>3 DEF Shows
    <3> QED BY <1>8, <3>1
  <2> QED BY <2>2, <2>3
<1>15. CASE step.what = "won"
  <2>1. value = Winner(b)
    BY <1>15 DEF Answer
  <2>2. shows = [p \in {<<"status">>} |-> <<value, "has won">>]
    BY <1>15 DEF Shows
  <2>3. Status(b) = <<Winner(b), "has won">>
    BY <1>3, <1>15, StatusTells
  <2>4. PICK word : word = <<value, "has won">>
    OBVIOUS
  <2>5. word = Status(b) /\ shows = [p \in {<<"status">>} |-> word]
    BY <2>1, <2>2, <2>3, <2>4
  <2> QED BY <1>5, <1>9, <2>5
<1>16. CASE step.what \notin {"taken", "empty", "turn", "over", "won"}
  <2>1. DOMAIN shows = {}
    BY <1>16 DEF Shows
  <2> QED BY <1>8, <2>1
<1> QED BY <1>11, <1>12, <1>13, <1>14, <1>15, <1>16

\* A request whose every round trip was made: what it may be answered with.
Composed(r, w, s) ==
  /\ w # <<>> => /\ Known(r.view.game)
                 /\ r.verb \in {"POST", "PUT"}
                 /\ w = << <<Prefix(r.view.game), r.view.kind, r.view.cell>> >>
  /\ r.said = "ok" => w # <<>>
  /\ s \subseteq Statuses \cup {Reset}
  /\ Reset \notin s => Right(r.shown, s)
  /\ r.view.kind = "board" /\ r.kept = "none" => Cells \subseteq DOMAIN r.shown

\* A view is spliced when nothing is left to be read, and fails by the first
\* failure that was kept.
LEMMA SplicedKeeps ==
  ASSUME NEW r, NEW w, NEW s, NEW b, r.kept \in Failures \cup {"none"},
         r = [at |-> "serving", verb |-> r.verb, view |-> r.view, todo |-> r.todo,
              shown |-> r.shown, said |-> r.said, code |-> r.code, kept |-> r.kept],
         r.todo # <<>> => Keeps(r, w, s, b),
         r.todo = <<>> => Composed(r, w, s)
  PROVE  Keeps(Spliced(r), w, s, b)
<1>1. CASE r.todo # <<>>
  BY <1>1 DEF Spliced
<1>2. CASE r.todo = <<>>
  <2>1. PICK code \in {200, 500, 503} :
          Spliced(r) = Answered(r, code) /\ (code = 200 => r.kept = "none")
    <3>1. CASE r.kept = "none"
      BY <1>2, <3>1 DEF Spliced
    <3>2. CASE r.kept \in Failures
      <4>1. r.kept # "none" /\ r.kept # "Unresolved" /\ STATUS_OF(r.kept) \in {500, 503}
        BY <3>2, TicTacToeAssumption DEF STATUS_OF
      <4>2. Spliced(r) = Answered(r, STATUS_OF(r.kept))
        BY <1>2, <4>1 DEF Spliced, Raised
      <4> QED BY <4>1, <4>2
    <3> QED BY <3>1, <3>2
  <2>2. PICK a : a = Answered(r, code)
    OBVIOUS
  <2>3. a = [at |-> "answered", verb |-> r.verb, view |-> r.view, todo |-> <<>>,
             shown |-> r.shown, said |-> r.said, code |-> code, kept |-> r.kept]
    BY <2>2 DEF Answered
  <2>4. Placed(a)
    BY <2>3 DEF Placed
  <2>5. Told(a, w)
    BY <1>2, <2>3 DEF Composed, Told
  <2>6. Fresh(a, s, b)
    BY <1>2, <2>3 DEF Composed, Fresh
  <2>7. Whole(a)
    BY <1>2, <2>1, <2>3 DEF Composed, Whole
  <2> QED BY <2>1, <2>2, <2>4, <2>5, <2>6, <2>7 DEF Keeps
<1> QED BY <1>1, <1>2

\* A square that is to be read is read, or shown once it was.
LEMMA SquareGoesOn ==
  ASSUME NEW todo \in Seq(BoardSteps), NEW c \in Cells, Awaited(todo, c),
         NEW step, step = Head(todo), NEW value, NEW next, next = FollowUp(step, value) \o Tail(todo),
         NEW shows, shows = Shows(step, value)
  PROVE  c \in DOMAIN shows \/ Awaited(next, c)
<1> USE DEF Awaited
<1>0. PICK i \in DOMAIN todo : todo[i].cell = c
  OBVIOUS
<1>1. todo # <<>> /\ step = todo[1] /\ step \in BoardSteps
  BY <1>0
<1>2. PICK follow \in Seq(BoardSteps) :
        /\ follow = FollowUp(step, value)
        /\ step.what = "square" => Len(follow) = 1 /\ follow[1].cell = step.cell
  <2>1. CASE step.what = "square"
    <3>1. step.cell \in Cells
      BY <1>1, <2>1 DEF BoardSteps, Step
    <3>2. PICK x : x = Step(IF value = "-" THEN "empty" ELSE "taken", step.cell)
      OBVIOUS
    <3>3. x \in BoardSteps /\ x.cell = step.cell
      BY <3>1, <3>2 DEF BoardSteps, Step
    <3>4. FollowUp(step, value) = <<x>>
      BY <2>1, <3>2, Follows
    <3>5. <<x>> \in Seq(BoardSteps) /\ Len(<<x>>) = 1 /\ <<x>>[1] = x
      BY <3>3
    <3> QED BY <3>3, <3>4, <3>5
  <2>2. CASE step.what # "square"
    <3>1. step.what \in {"template", "empty", "taken"}
      BY <1>1, <2>2 DEF BoardSteps, Step
    <3>2. FollowUp(step, value) = <<>>
      BY <3>1, Follows
    <3>3. <<>> \in Seq(BoardSteps)
      OBVIOUS
    <3> QED BY <2>2, <3>2, <3>3
  <2> QED BY <2>1, <2>2
<1>3. PICK rest \in Seq(BoardSteps) :
        /\ rest = Tail(todo) /\ Len(rest) = Len(todo) - 1
        /\ \A k \in 1 .. Len(rest) : rest[k] = todo[k + 1]
  <2>1. PICK rest : rest = Tail(todo)
    OBVIOUS
  <2>2. /\ rest \in Seq(BoardSteps) /\ Len(rest) = Len(todo) - 1
        /\ \A k \in 1 .. Len(rest) : rest[k] = todo[k + 1]
    BY <1>1, <2>1, HeadTailProperties
  <2> QED BY <2>1, <2>2
<1>4. /\ next \in Seq(BoardSteps) /\ Len(next) = Len(follow) + Len(rest)
      /\ \A k \in 1 .. Len(follow) + Len(rest) :
           next[k] = IF k <= Len(follow) THEN follow[k] ELSE rest[k - Len(follow)]
  BY <1>2, <1>3, ConcatProperties
<1>5. CASE i # 1
  <2>1. PICK k \in Nat : k = i - 1 /\ k \in 1 .. Len(rest) /\ rest[k] = todo[i]
    <3>1. i \in 1 .. Len(todo) /\ Len(todo) \in Nat
      BY <1>0
    <3>2. i - 1 \in Nat /\ i - 1 \in 1 .. Len(rest) /\ (i - 1) + 1 = i
      BY <1>3, <1>5, <3>1
    <3>3. rest[i - 1] = todo[i]
      BY <1>3, <3>2
    <3> QED BY <3>2, <3>3
  <2>2. Len(follow) \in Nat /\ Len(rest) \in Nat
    BY <1>2, <1>3
  <2>3. Len(follow) + k \in 1 .. Len(follow) + Len(rest) /\ ~(Len(follow) + k <= Len(follow))
        /\ Len(follow) + k - Len(follow) = k
    BY <2>1, <2>2
  <2>4. next[Len(follow) + k] = rest[k]
    <3>1. PICK m : m = Len(follow) + k
      OBVIOUS
    <3>2. m \in 1 .. Len(follow) + Len(rest) /\ ~(m <= Len(follow)) /\ m - Len(follow) = k
      BY <2>3, <3>1
    <3>3. next[m] = rest[k]
      BY <1>4, <3>2
    <3> QED BY <3>1, <3>3
  <2>5. Len(follow) + k \in DOMAIN next
    BY <1>4, <2>3
  <2> QED BY <1>0, <2>1, <2>4, <2>5
<1>6. CASE i = 1
  <2>1. step.cell = c
    BY <1>0, <1>1, <1>6
  <2>2. CASE step.what = "square"
    <3>1. 1 \in DOMAIN next /\ next[1] = follow[1]
      BY <1>2, <1>3, <1>4, <2>2
    <3> QED BY <1>2, <2>1, <2>2, <3>1
  <2>3. CASE step.what # "square"
    <3>1. c # <<>>
      <4>1. c \in STRING \X STRING
        BY TicTacToeAssumption
      <4>2. PICK x, y : c = <<x, y>>
        BY <4>1
      <4>3. Len(<<x, y>>) = 2 /\ Len(<<>>) = 0
        OBVIOUS
      <4> QED BY <4>2, <4>3
    <3>2. step.what \in {"empty", "taken"}
      BY <1>1, <2>1, <2>3, <3>1 DEF BoardSteps, Step
    <3>3. CASE step.what = "taken"
      <4>1. Shows(step, value) = [d \in {step.cell} |-> value]
        BY <3>3 DEF Shows
      <4> QED BY <2>1, <4>1
    <3>4. CASE step.what = "empty"
      <4>1. Shows(step, value) = [d \in {step.cell} |-> IF value = "-" THEN "open" ELSE "closed"]
        BY <3>4 DEF Shows
      <4> QED BY <2>1, <4>1
    <3> QED BY <3>2, <3>3, <3>4
  <2> QED BY <2>2, <2>3
<1> QED BY <1>5, <1>6

\* A read keeps the invariant, whether another round trip follows or the answer.
LEMMA WentKeeps ==
  ASSUME NEW r, NEW w, NEW s, NEW b \in Boards, Keeps(r, w, s, b),
         r.at = "serving", Head(r.todo).what # "sink", Known(r.view.game),
         NEW s2, s2 = IF s = {} THEN {Status(b)} ELSE s
  PROVE  Keeps(Went(r, Head(r.todo), Answer(Head(r.todo), b)), w, s2, b)
<1>1. PICK step, value : step = Head(r.todo) /\ value = Answer(step, b)
  OBVIOUS
<1>2. PICK next : next = FollowUp(step, value) \o Tail(r.todo)
  OBVIOUS
<1>3. PICK shows : shows = Shows(step, value)
  OBVIOUS
<1>4. PICK shown : shown = [p \in DOMAIN r.shown \cup DOMAIN shows |->
                              IF p \in DOMAIN shows THEN shows[p] ELSE r.shown[p]]
  OBVIOUS
<1>5. PICK on : /\ on = [r EXCEPT !.todo = next, !.shown = shown]
                /\ on = [at |-> "serving", verb |-> r.verb, view |-> r.view, todo |-> next,
                         shown |-> shown, said |-> r.said, code |-> r.code, kept |-> r.kept]
  <2>1. r = [at |-> "serving", verb |-> r.verb, view |-> r.view, todo |-> r.todo,
             shown |-> r.shown, said |-> r.said, code |-> r.code, kept |-> r.kept]
    BY DEF Keeps, Placed
  <2>2. PICK on : on = [r EXCEPT !.todo = next, !.shown = shown]
    OBVIOUS
  <2>3. on = [at |-> "serving", verb |-> r.verb, view |-> r.view, todo |-> next,
              shown |-> shown, said |-> r.said, code |-> r.code, kept |-> r.kept]
    BY <2>1, <2>2
  <2> QED BY <2>2, <2>3
<1>6. on.todo = next /\ on.kept = r.kept /\ r.kept \in Failures \cup {"none"}
  BY <1>5 DEF Keeps, Placed
<1>7. Went(r, step, value) = Spliced(on)
  BY <1>2, <1>3, <1>4, <1>5 DEF Went
<1>8. r.todo \in Left(r.view) /\ r.view.kind \in Served
  BY DEF Keeps, Placed
<1>9. s \subseteq s2 /\ Status(b) \in s2 /\ s2 \subseteq Statuses \cup {Reset}
  BY StatusTells DEF Keeps, Fresh
<1>10. ASSUME Reset \notin s2 PROVE Right(shown, s2) /\ Holds(on, s2, b)
  <2>1. Reset \notin s
    BY <1>9, <1>10
  <2>2. Holds(r, s, b) /\ Right(r.shown, s) /\ (s = {} => Unread(r)) /\ (s # {} => Status(b) \in s)
    BY <2>1 DEF Keeps, Fresh
  <2>3. Holds(on, s2, b)
    <3>1. on.todo = FollowUp(step, value) \o Tail(r.todo)
      BY <1>2, <1>5
    <3> QED BY <1>1, <1>8, <1>9, <2>2, <3>1, StillHolds
  <2>4. Right(shown, s2)
    BY <1>1, <1>3, <1>4, <1>8, <2>2, ShownRight
  <2> QED BY <2>3, <2>4
<1>11. ASSUME r.view.kind = "board", r.kept = "none", NEW c \in Cells
       PROVE  c \in DOMAIN shown \/ Awaited(next, c)
  <2>1. r.todo \in Seq(BoardSteps)
    BY <1>8, <1>11 DEF Left, Writing
  <2>2. c \in DOMAIN r.shown \/ Awaited(r.todo, c)
    BY <1>11 DEF Keeps, Whole
  <2>3. DOMAIN shown = DOMAIN r.shown \cup DOMAIN shows
    BY <1>4
  <2>4. CASE Awaited(r.todo, c)
    <3>1. PICK todo \in Seq(BoardSteps) : todo = r.todo
      BY <2>1
    <3>2. step = Head(todo) /\ next = FollowUp(step, value) \o Tail(todo) /\ Awaited(todo, c)
      BY <1>1, <1>2, <2>4, <3>1
    <3>3. c \in Cells
      BY <1>11
    <3>4. c \in DOMAIN shows \/ Awaited(next, c)
      BY ONLY <1>3, <3>1, <3>2, <3>3, SquareGoesOn
    <3> QED BY <2>3, <3>4
  <2> QED BY <2>2, <2>3, <2>4
<1>12. ASSUME next = <<>> PROVE Composed(on, w, s2)
  <2>1. ASSUME r.view.kind = "board", r.kept = "none" PROVE Cells \subseteq DOMAIN shown
    BY <1>11, <1>12, <2>1 DEF Awaited
  <2> QED BY <1>5, <1>9, <1>10, <2>1 DEF Composed, Keeps, Told
<1>13. ASSUME next # <<>> PROVE Keeps(on, w, s2, b)
  <2>1. next \in Left(r.view) /\ (r.todo \in StatusLeft => next \in StatusLeft)
    <3>1. step.what # "sink"
      BY <1>1
    <3> QED BY <1>1, <1>2, <1>8, <1>13, <3>1, GoesOn
  <2>2. Placed(on)
    BY <1>5, <1>6, <2>1 DEF Keeps, Placed
  <2>3. Told(on, w)
    BY <1>5, <2>1 DEF Keeps, Told
  <2>4. ASSUME r.view.kind \in Writing, next \notin StatusLeft PROVE DOMAIN shown = {}
    <3>1. r.todo \notin StatusLeft
      BY <2>1, <2>4
    <3>2. step.what = "spelling"
      BY <1>1, <1>8, <2>4, <3>1, LeftSteps
    <3>3. DOMAIN shows = {}
      BY <1>3, <3>2 DEF Shows
    <3>4. DOMAIN r.shown = {}
      BY <2>4, <3>1 DEF Keeps, Fresh
    <3> QED BY <1>4, <3>3, <3>4
  <2>5. Fresh(on, s2, b)
    BY <1>5, <1>9, <1>10, <2>4 DEF Fresh
  <2>6. Whole(on)
    BY <1>5, <1>11 DEF Whole
  <2> QED BY <2>2, <2>3, <2>5, <2>6 DEF Keeps
<1>14. PICK s3 : s3 = s2
  OBVIOUS
<1>15. Keeps(Spliced(on), w, s3, b)
  <2>1. on.todo # <<>> => Keeps(on, w, s3, b)
    BY <1>6, <1>13, <1>14
  <2>2. on.todo = <<>> => Composed(on, w, s3)
    BY <1>6, <1>12, <1>14
  <2>3. on = [at |-> "serving", verb |-> on.verb, view |-> on.view, todo |-> on.todo,
              shown |-> on.shown, said |-> on.said, code |-> on.code, kept |-> on.kept]
    BY <1>5
  <2> QED BY ONLY <1>6, <2>1, <2>2, <2>3, SplicedKeeps
<1> QED BY <1>1, <1>7, <1>14, <1>15

\* A failed read of a square is kept, and the other squares are still read: what
\* they were told holds on.
LEMMA FailedKeeps ==
  ASSUME NEW r, NEW w, NEW s, NEW b, Keeps(r, w, s, b), r.at = "serving",
         NEW step, step = Head(r.todo), step.what \in {"square", "empty", "taken"},
         NEW error \in Failures
  PROVE  Keeps(Failed(r, step, error), w, s, b)
<1>1. r.todo \in Left(r.view) /\ r.view.kind \in Served /\ r.kept \in Failures \cup {"none"}
  BY DEF Keeps, Placed
<1>2. r.todo \notin StatusLeft /\ r.view.kind = "board"
  BY <1>1, LeftSteps
<1>3. r.todo \in Seq(BoardSteps) /\ r.todo # <<>>
  BY <1>1, <1>2 DEF Left, Writing
<1>4. w = <<>>
  BY <1>2 DEF Keeps, Told
<1>5. PICK next \in Seq(BoardSteps) :
        /\ next = Tail(r.todo) /\ Len(next) = Len(r.todo) - 1
        /\ \A i \in 1 .. Len(next) : next[i] = r.todo[i + 1]
  <2>1. PICK next : next = Tail(r.todo)
    OBVIOUS
  <2>2. /\ next \in Seq(BoardSteps) /\ Len(next) = Len(r.todo) - 1
        /\ \A i \in 1 .. Len(next) : next[i] = r.todo[i + 1]
    BY <1>3, <2>1, HeadTailProperties
  <2> QED BY <2>1, <2>2
<1>6. \A i \in DOMAIN next : \E j \in DOMAIN r.todo : next[i] = r.todo[j]
  <2> SUFFICES ASSUME NEW i \in DOMAIN next PROVE \E j \in DOMAIN r.todo : next[i] = r.todo[j]
    OBVIOUS
  <2>1. i \in 1 .. Len(next) /\ i + 1 \in 1 .. Len(r.todo)
    BY <1>3, <1>5
  <2>2. i + 1 \in DOMAIN r.todo /\ next[i] = r.todo[i + 1]
    BY <1>3, <1>5, <2>1
  <2> QED BY <2>2
<1>7. PICK kept : kept = IF r.kept = "none" THEN error ELSE r.kept
  OBVIOUS
<1>8. kept \in Failures \cup {"none"} /\ kept # "none"
  BY <1>1, <1>7, TicTacToeAssumption
<1>9. PICK on : /\ on = [r EXCEPT !.todo = next, !.kept = kept]
                /\ on = [at |-> "serving", verb |-> r.verb, view |-> r.view, todo |-> next,
                         shown |-> r.shown, said |-> r.said, code |-> r.code, kept |-> kept]
  <2>1. r = [at |-> "serving", verb |-> r.verb, view |-> r.view, todo |-> r.todo,
             shown |-> r.shown, said |-> r.said, code |-> r.code, kept |-> r.kept]
    BY DEF Keeps, Placed
  <2>2. PICK on : on = [r EXCEPT !.todo = next, !.kept = kept]
    OBVIOUS
  <2>3. on = [at |-> "serving", verb |-> r.verb, view |-> r.view, todo |-> next,
              shown |-> r.shown, said |-> r.said, code |-> r.code, kept |-> kept]
    BY <2>1, <2>2
  <2> QED BY <2>2, <2>3
<1>10. Failed(r, step, error) = Spliced(on)
  <2>1. on = [r EXCEPT !.todo = Tail(@), !.kept = IF @ = "none" THEN error ELSE @]
    BY <1>5, <1>7, <1>9
  <2> QED BY <2>1 DEF Failed
<1>11. ASSUME next # <<>> PROVE Keeps(on, w, s, b)
  <2>1. Placed(on)
    BY <1>2, <1>5, <1>8, <1>9, <1>11 DEF Placed, Left, Writing, Served
  <2>2. Told(on, w)
    BY <1>4, <1>9 DEF Keeps, Told
  <2>3. Unread(r) => Unread(on)
    BY <1>6, <1>9 DEF Unread
  <2>4. Holds(r, s, b) => Holds(on, s, b)
    <3>1. on.todo = next
      BY <1>9
    <3> SUFFICES ASSUME Holds(r, s, b), NEW i \in DOMAIN next
                 PROVE  /\ next[i].what = "taken" => b[next[i].cell] # "-"
                        /\ next[i].what = "turn" => \E mark \in {"X", "O"} : <<mark, "to play">> \in s
                        /\ next[i].what = "over" => Winner(b) # "-"
                        /\ next[i].what = "won" => Winner(b) \in {"X", "O"}
      BY <3>1 DEF Holds
    <3>2. PICK j \in DOMAIN r.todo : next[i] = r.todo[j]
      BY <1>6
    <3> QED BY <3>2 DEF Holds
  <2>5. Fresh(on, s, b)
    BY <1>2, <1>9, <2>3, <2>4 DEF Keeps, Fresh, Writing
  <2>6. Whole(on)
    BY <1>8, <1>9 DEF Whole
  <2> QED BY <2>1, <2>2, <2>5, <2>6 DEF Keeps
<1>12. Composed(on, w, s)
  BY <1>4, <1>8, <1>9 DEF Composed, Keeps, Told, Fresh
<1>13. Keeps(Spliced(on), w, s, b)
  <2>1. on.todo # <<>> => Keeps(on, w, s, b)
    BY <1>9, <1>11
  <2>2. on.kept \in Failures \cup {"none"}
    BY <1>8, <1>9
  <2>3. on = [at |-> "serving", verb |-> on.verb, view |-> on.view, todo |-> on.todo,
              shown |-> on.shown, said |-> on.said, code |-> on.code, kept |-> on.kept]
    BY <1>9
  <2> QED BY ONLY <1>12, <2>1, <2>2, <2>3, SplicedKeeps
<1> QED BY <1>10, <1>13

\* The Sink comes before anything of a status.
LEMMA SinkIsAWrite ==
  ASSUME NEW r, Placed(r), r.at = "serving", Head(r.todo).what = "sink"
  PROVE  r.view.kind \in Writing /\ r.todo \notin StatusLeft /\ r.todo \in WriteLeft(r.view)
<1>1. r.todo \in Left(r.view)
  BY DEF Placed
<1>2. Head(r.todo).what \in {"spelling", "sink"}
  OBVIOUS
<1> QED BY <1>1, <1>2, LeftSteps

\* After the Sink a request composes its status view; nothing was shown before
\* it, and what is written for it then is that write or nothing.
LEMMA SinkKeeps ==
  ASSUME NEW r, NEW w, NEW s, NEW b, Keeps(r, w, s, b),
         r.at = "serving", Head(r.todo).what = "sink",
         NEW word, NEW w2, NEW s2, NEW b2,
         word = "ok" => w2 # <<>>,
         \/ w2 = w /\ s2 = s /\ b2 = b
         \/ /\ Known(r.view.game) /\ b2 \in Boards /\ s2 = {Status(b2)}
            /\ w2 = Append(w, <<Prefix(r.view.game), r.view.kind, r.view.cell>>)
  PROVE  Keeps(Went([r EXCEPT !.said = word], Head(r.todo), "text"), w2, s2, b2)
<1>1. PICK step : step = Head(r.todo)
  OBVIOUS
<1>2. r.todo \in Left(r.view) /\ r.view.kind \in Served
  BY DEF Keeps, Placed
<1>3. r.view.kind \in Writing /\ r.todo \notin StatusLeft /\ r.todo \in WriteLeft(r.view)
  BY SinkIsAWrite DEF Keeps
<1>4. PICK next : next = <<Step("template", <<>>), Step("status", <<>>)>>
  OBVIOUS
<1>5. Tail(r.todo) = next
  <2>1. PICK z, u : z = Step("template", <<>>) /\ u = Step("status", <<>>)
    OBVIOUS
  <2>2. r.todo # <<Step("spelling", r.view.cell), Step("sink", r.view.cell), z, u>>
    <3>1. PICK x, y : x = Step("spelling", r.view.cell) /\ y = Step("sink", r.view.cell)
      OBVIOUS
    <3>2. Head(<<x, y, z, u>>) = x
      BY Few
    <3>3. x.what = "spelling"
      BY <3>1 DEF Step
    <3> QED BY <3>1, <3>2, <3>3
  <2>3. PICK x : r.todo = <<x, z, u>>
    BY <1>3, <2>1, <2>2 DEF WriteLeft
  <2>4. Tail(<<x, z, u>>) = <<z, u>>
    BY Few
  <2> QED BY <1>4, <2>1, <2>3, <2>4
<1>6. FollowUp(step, "text") = <<>>
  BY <1>1, Follows
<1>7. FollowUp(step, "text") \o Tail(r.todo) = next
  BY <1>4, <1>5, <1>6, Appended
<1>8. DOMAIN Shows(step, "text") = {}
  BY <1>1 DEF Shows
<1>9. DOMAIN r.shown = {}
  BY <1>3 DEF Keeps, Fresh
<1>10. PICK shown : /\ shown = [p \in DOMAIN r.shown \cup DOMAIN Shows(step, "text") |->
                                  IF p \in DOMAIN Shows(step, "text") THEN Shows(step, "text")[p]
                                  ELSE r.shown[p]]
                    /\ DOMAIN shown = {}
  <2>1. PICK shown : shown = [p \in DOMAIN r.shown \cup DOMAIN Shows(step, "text") |->
                                IF p \in DOMAIN Shows(step, "text") THEN Shows(step, "text")[p]
                                ELSE r.shown[p]]
    OBVIOUS
  <2>2. DOMAIN shown = DOMAIN r.shown \cup DOMAIN Shows(step, "text")
    BY <2>1
  <2> QED BY <1>8, <1>9, <2>1, <2>2
<1>11. PICK on, q : /\ q = [r EXCEPT !.said = word]
                    /\ q.todo = r.todo /\ q.shown = r.shown
                    /\ on = [q EXCEPT !.todo = next, !.shown = shown]
                    /\ on = [at |-> "serving", verb |-> r.verb, view |-> r.view, todo |-> next,
                             shown |-> shown, said |-> word, code |-> r.code, kept |-> r.kept]
  <2>1. r = [at |-> "serving", verb |-> r.verb, view |-> r.view, todo |-> r.todo,
             shown |-> r.shown, said |-> r.said, code |-> r.code, kept |-> r.kept]
    BY DEF Keeps, Placed
  <2>2. PICK q : q = [r EXCEPT !.said = word]
    OBVIOUS
  <2>3. q = [at |-> "serving", verb |-> r.verb, view |-> r.view, todo |-> r.todo,
             shown |-> r.shown, said |-> word, code |-> r.code, kept |-> r.kept]
    BY <2>1, <2>2
  <2>4. PICK on : on = [q EXCEPT !.todo = next, !.shown = shown]
    OBVIOUS
  <2>5. on = [at |-> "serving", verb |-> r.verb, view |-> r.view, todo |-> next,
              shown |-> shown, said |-> word, code |-> r.code, kept |-> r.kept]
    BY <2>3, <2>4
  <2> QED BY <2>2, <2>3, <2>4, <2>5
<1>12. next # <<>> /\ next \in StatusLeft /\ next \in Left(r.view)
       /\ \A i \in DOMAIN next : next[i].what \in {"template", "status"}
  <2>1. next # <<>> /\ next \in StatusLeft
    BY <1>4 DEF StatusLeft
  <2>2. next \in Left(r.view)
    BY <1>3, <2>1 DEF Left, Writing
  <2>3. \A i \in DOMAIN next : next[i] \in {Step("template", <<>>), Step("status", <<>>)}
    BY <1>4
  <2> QED BY <2>1, <2>2, <2>3 DEF Step
<1>13. Went([r EXCEPT !.said = word], step, "text") = on
  <2>1. Went(q, step, "text") = Spliced(on)
    <3>1. FollowUp(step, "text") \o Tail(q.todo) = next
      BY <1>7, <1>11
    <3>2. shown = [p \in DOMAIN q.shown \cup DOMAIN Shows(step, "text") |->
                     IF p \in DOMAIN Shows(step, "text") THEN Shows(step, "text")[p] ELSE q.shown[p]]
      BY <1>10, <1>11
    <3>3. on = [q EXCEPT !.todo = next, !.shown = shown]
      BY <1>11
    <3> QED BY <3>1, <3>2, <3>3 DEF Went
  <2>2. on.todo = next
    BY <1>11
  <2> QED BY <1>11, <1>12, <2>1, <2>2 DEF Spliced
<1>14. w = <<>> /\ r.verb \in {"POST", "PUT"}
  BY <1>3 DEF Keeps, Told, Placed
<1>15. Placed(on)
  BY <1>11, <1>12 DEF Keeps, Placed
<1>16. Told(on, w2)
  <2>1. CASE w2 = w
    BY <1>11, <1>14, <2>1 DEF Told
  <2>2. CASE Known(r.view.game) /\ w2 = Append(w, <<Prefix(r.view.game), r.view.kind, r.view.cell>>)
    <3>1. PICK x : x = <<Prefix(r.view.game), r.view.kind, r.view.cell>>
      OBVIOUS
    <3>2. w2 = <<x>>
      BY <1>14, <2>2, <3>1
    <3> QED BY <1>11, <1>12, <1>14, <2>2, <3>1, <3>2 DEF Told
  <2> QED BY <2>1, <2>2
<1>17. Unread(on) /\ Right(shown, s2) /\ Holds(on, s2, b2)
  BY <1>10, <1>11, <1>12 DEF Unread, Right, Holds
<1>18. s2 \subseteq Statuses \cup {Reset} /\ (s2 # {} => Known(r.view.game) /\ Status(b2) \in s2)
  BY StatusTells DEF Keeps, Fresh
<1>19. Fresh(on, s2, b2)
  BY <1>11, <1>12, <1>17, <1>18 DEF Fresh
<1>20. Whole(on)
  BY <1>3, <1>11 DEF Whole, Writing
<1> QED BY <1>1, <1>13, <1>15, <1>16, <1>19, <1>20 DEF Keeps

\* A move or a reset by somebody else keeps what a request was told: a status
\* more that its game has had, and no mark less unless it was reset.
LEMMA OthersKeep ==
  ASSUME NEW r, NEW w, NEW s, NEW b \in Boards, Keeps(r, w, s, b),
         NEW b2, \/ b2 = Empty
                 \/ \E c \in Cells : Legal(b, c) /\ b2 = Moved(b, c),
         NEW s2, s2 = IF s # {} /\ r.at = "serving"
                      THEN s \cup {Status(b2)} \cup (IF b2 = Empty THEN {Reset} ELSE {})
                      ELSE s
  PROVE  Keeps(r, w, s2, b2)
<1>1. b2 \in Boards
  BY EmptyBoard, MoveAdds
<1>2. Status(b2) \in Statuses
  BY <1>1, StatusTells
<1>3. Right(r.shown, s) => Right(r.shown, s2)
  BY DEF Right
<1>4. CASE r.at # "serving"
  BY <1>4 DEF Keeps, Fresh
<1>5. CASE r.at = "serving" /\ s = {}
  <2>1. Unread(r)
    BY <1>5 DEF Keeps, Fresh
  <2>2. Holds(r, s2, b2)
    BY <2>1 DEF Unread, Holds
  <2> QED BY <1>5, <2>2 DEF Keeps, Fresh
<1>6. CASE r.at = "serving" /\ s # {}
  <2>1. s \subseteq s2 /\ Status(b2) \in s2 /\ s2 \subseteq Statuses \cup {Reset} /\ s2 # {}
    BY <1>2, <1>6 DEF Keeps, Fresh
  <2>2. ASSUME Reset \notin s2 PROVE Holds(r, s2, b2) /\ Right(r.shown, s2)
    <3>1. b2 # Empty /\ Reset \notin s
      BY <1>6, <2>2
    <3>2. PICK c \in Cells : Legal(b, c) /\ b2 = Moved(b, c)
      BY <3>1
    <3>3. Winner(b) = "-" /\ \A d \in Cells : b[d] # "-" => b2[d] = b[d]
      BY <3>2, MoveAdds
    <3>4. Holds(r, s, b) /\ Right(r.shown, s)
      BY <1>6, <3>1 DEF Keeps, Fresh
    <3>5. ASSUME NEW i \in DOMAIN r.todo, r.todo[i].what = "taken"
          PROVE  b2[r.todo[i].cell] # "-"
      <4>1. r.todo[i].cell \in Cells
        <5>1. r.todo \in Left(r.view)
          BY <1>6 DEF Keeps, Placed
        <5> QED BY <3>5, <5>1, TakenIsASquare
      <4> QED BY <3>3, <3>4, <3>5, <4>1 DEF Holds
    <3>6. Holds(r, s2, b2)
      BY <2>1, <3>3, <3>4, <3>5 DEF Holds
    <3> QED BY <1>3, <3>4, <3>6
  <2>3. Fresh(r, s2, b2)
    BY <1>6, <2>1, <2>2 DEF Keeps, Fresh
  <2> QED BY <2>3 DEF Keeps
<1> QED BY <1>4, <1>5, <1>6

WriteAdded(w, r) == Append(w, <<Prefix(r.view.game), r.view.kind, r.view.cell>>)

\* A write that was sent before the connection was lost was carried out, though
\* its request is answered as one the host could not be asked.
LEMMA LostKeeps ==
  ASSUME NEW r, NEW w, NEW s, NEW b, Keeps(r, w, s, b),
         r.at = "serving", Head(r.todo).what = "sink", Known(r.view.game),
         NEW b2 \in Boards, NEW w2, w2 = WriteAdded(w, r),
         NEW a, a = Answered(r, 503), NEW s2, s2 = {Status(b2)}
  PROVE  Keeps(a, w2, s2, b2)
<1>1. PICK code : code = 503 /\ a = Answered(r, code)
  OBVIOUS
<1>2. a = [at |-> "answered", verb |-> r.verb, view |-> r.view, todo |-> <<>>,
           shown |-> r.shown, said |-> r.said, code |-> code, kept |-> r.kept]
  BY <1>1, AnsweredIs DEF Keeps
<1>3. w = <<>> /\ DOMAIN r.shown = {} /\ r.verb \in {"POST", "PUT"}
  BY SinkIsAWrite DEF Keeps, Placed, Told, Fresh
<1>4. PICK x : x = <<Prefix(r.view.game), r.view.kind, r.view.cell>> /\ w2 = <<x>>
  BY <1>3 DEF WriteAdded
<1>5. Placed(a) /\ Whole(a)
  BY <1>1, <1>2 DEF Keeps, Placed, Whole
<1>6. Told(a, w2)
  BY <1>1, <1>2, <1>3, <1>4 DEF Told
<1>7. Fresh(a, s2, b2)
  <2>1. s2 \subseteq Statuses
    BY StatusTells
  <2>2. Right(r.shown, s2)
    BY <1>3 DEF Right
  <2>3. a.at = "answered" /\ a.shown = r.shown
    BY <1>2
  <2> QED BY ONLY <2>1, <2>2, <2>3 DEF Fresh
<1> QED BY <1>1, <1>5, <1>6, <1>7 DEF Keeps

-----------------------------------------------------------------------------
(* The actions. *)

LEMMA InitKeeps == Init => IInv
<1> SUFFICES ASSUME Init PROVE IInv
  OBVIOUS
<1>1. TypeOK
  BY EmptyBoard DEF Init, TypeOK
<1>2. ASSUME NEW t \in Threads PROVE Kept(t)
  <2>1. PICK r : r = Request
    OBVIOUS
  <2>2. r = [at |-> "new", verb |-> "-", view |-> NoView, todo |-> <<>>,
             shown |-> [p \in {} |-> "-"], said |-> "-", code |-> 0, kept |-> "none"]
    BY <2>1 DEF Request
  <2>3. Placed(r) /\ Told(r, <<>>)
    BY <2>2 DEF Placed, Told
  <2>4. Whole(r) /\ \A b : Fresh(r, {}, b)
    BY <2>2 DEF Fresh, Right, Whole
  <2>5. req[t] = r /\ wrote[t] = <<>> /\ since[t] = {}
    BY <2>1 DEF Init
  <2> QED BY <2>3, <2>4, <2>5 DEF Kept, Keeps
<1> QED BY <1>1, <1>2 DEF IInv

\* The board of a game the host has is one.
LEMMA BoardKnown ==
  ASSUME TypeOK, NEW r
  PROVE  /\ BoardOf(r) \in Boards
         /\ Known(r.view.game) => /\ Prefix(r.view.game) \in DOMAIN board
                                  /\ BoardOf(r) = board[Prefix(r.view.game)]
BY EmptyBoard DEF TypeOK, BoardOf, Known, Prefix

\* A request no step is about keeps the invariant.
LEMMA SameKeeps ==
  ASSUME NEW u \in Threads, Kept(u), board' = board, req'[u] = req[u],
         wrote'[u] = wrote[u], since'[u] = since[u]
  PROVE  Kept(u)'
BY DEF Kept, BoardOf

\* A step of one request that writes nothing.
LEMMA OneKeeps ==
  ASSUME IInv, NEW t \in Threads, NEW r, NEW s,
         req' = [req EXCEPT ![t] = r], since' = [since EXCEPT ![t] = s],
         UNCHANGED <<board, wrote>>, Keeps(r, wrote[t], s, BoardOf(r))
  PROVE  IInv'
<1>1. TypeOK'
  BY DEF IInv, TypeOK
<1>2. Kept(t)'
  <2>1. req'[t] = r /\ since'[t] = s
    BY DEF IInv, TypeOK
  <2>2. BoardOf(r)' = BoardOf(r)
    BY DEF BoardOf
  <2> QED BY <2>1, <2>2 DEF Kept, BoardOf
<1>3. ASSUME NEW u \in Threads, u # t PROVE Kept(u)'
  <2>1. req'[u] = req[u] /\ since'[u] = since[u]
    BY <1>3 DEF IInv, TypeOK
  <2> QED BY <2>1, SameKeeps DEF IInv
<1> QED BY <1>1, <1>2, <1>3 DEF IInv

\* A request of a game whose board changes, or of another game.
LEMMA BoardChanges ==
  ASSUME IInv, NEW u \in Threads, NEW g \in DOMAIN board, NEW b2,
         \/ b2 = Empty
         \/ \E c \in Cells : Legal(board[g], c) /\ b2 = Moved(board[g], c),
         board' = [board EXCEPT ![g] = b2], req'[u] = req[u], wrote'[u] = wrote[u],
         since'[u] = IF since[u] # {} /\ req[u].at = "serving" /\ Prefix(req[u].view.game) = g
                     THEN since[u] \cup {Status(b2)} \cup (IF b2 = Empty THEN {Reset} ELSE {})
                     ELSE since[u]
  PROVE  Kept(u)'
<1>1. PICK r : r = req[u]
  OBVIOUS
<1>2. Keeps(r, wrote[u], since[u], BoardOf(r)) /\ TypeOK
  BY <1>1 DEF IInv, Kept
<1>3. CASE Known(r.view.game) /\ Prefix(r.view.game) = g
  <2>1. BoardOf(r) = board[g] /\ board[g] \in Boards
    BY <1>2, <1>3, BoardKnown
  <2>2. BoardOf(r)' = b2
    BY <1>2, <1>3 DEF BoardOf, TypeOK
  <2>3. PICK s2 : s2 = IF since[u] # {} /\ r.at = "serving"
                       THEN since[u] \cup {Status(b2)} \cup (IF b2 = Empty THEN {Reset} ELSE {})
                       ELSE since[u]
    OBVIOUS
  <2>4. since'[u] = s2
    BY <1>1, <1>3, <2>3
  <2>5. Keeps(r, wrote[u], s2, b2)
    BY <1>2, <2>1, <2>3, OthersKeep
  <2> QED BY <1>1, <2>2, <2>4, <2>5 DEF Kept, BoardOf
<1>4. CASE ~(Known(r.view.game) /\ Prefix(r.view.game) = g)
  <2>1. since'[u] = since[u]
    <3>1. r.at = "serving" /\ since[u] # {} => Known(r.view.game)
      BY <1>2 DEF Keeps, Fresh
    <3> QED BY <1>1, <1>4, <3>1
  <2>2. BoardOf(r)' = BoardOf(r)
    <3>1. CASE Known(r.view.game)
      <4>1. Prefix(r.view.game) \in DOMAIN board /\ Prefix(r.view.game) # g
        BY <1>2, <1>4, <3>1, BoardKnown
      <4> QED BY <3>1, <4>1 DEF BoardOf
    <3>2. CASE ~Known(r.view.game)
      BY <3>2 DEF BoardOf
    <3> QED BY <3>1, <3>2
  <2> QED BY <1>1, <1>2, <2>1, <2>2 DEF Kept, BoardOf
<1> QED BY <1>3, <1>4

\* A write the host carries out for a request, whatever the request is told.
LEMMA CarriedKeeps ==
  ASSUME IInv, NEW t \in Threads, req[t].view.kind \in Writing, Known(req[t].view.game),
         NEW b, b = board[Prefix(req[t].view.game)], Takes(b, req[t].view), Carried(t),
         NEW b2, b2 = Written(b, req[t].view),
         NEW r, req' = [req EXCEPT ![t] = r], r.view = req[t].view,
         NEW w, w = Append(wrote[t], <<Prefix(req[t].view.game), req[t].view.kind, req[t].view.cell>>),
         Keeps(r, w, {Status(b2)}, b2)
  PROVE  IInv'
<1>1. PICK g : g = Prefix(req[t].view.game)
  OBVIOUS
<1>2. TypeOK /\ g \in DOMAIN board /\ b = board[g] /\ b \in Boards
  BY <1>1, BoardKnown DEF IInv, TypeOK
<1>3. \/ b2 = Empty
      \/ \E c \in Cells : Legal(board[g], c) /\ b2 = Moved(board[g], c)
  BY <1>2 DEF Written, Takes, Writing
<1>4. b2 \in Boards
  BY <1>2, <1>3, EmptyBoard, MoveAdds
<1>5. /\ board' = [board EXCEPT ![g] = b2]
      /\ wrote' = [wrote EXCEPT ![t] = w]
      /\ since' = [u \in Threads |->
           IF u \in {t} THEN {Status(b2)}
           ELSE IF since[u] # {} /\ req[u].at = "serving" /\ Prefix(req[u].view.game) = g
                THEN since[u] \cup {Status(b2)} \cup (IF b2 = Empty THEN {Reset} ELSE {})
                ELSE since[u]]
  BY <1>1, <1>2 DEF Carried, Noted, TypeOK
<1>6. TypeOK'
  BY <1>2, <1>4, <1>5 DEF TypeOK
<1>7. Kept(t)'
  <2>1. req'[t] = r /\ wrote'[t] = w /\ since'[t] = {Status(b2)}
    BY <1>2, <1>5 DEF TypeOK
  <2>2. BoardOf(r)' = b2
    BY <1>1, <1>2, <1>5 DEF BoardOf, TypeOK
  <2> QED BY <2>1, <2>2 DEF Kept, BoardOf
<1>8. ASSUME NEW u \in Threads, u # t PROVE Kept(u)'
  <2>1. req'[u] = req[u] /\ wrote'[u] = wrote[u]
    BY <1>2, <1>5, <1>8 DEF TypeOK
  <2>2. since'[u] = IF since[u] # {} /\ req[u].at = "serving" /\ Prefix(req[u].view.game) = g
                    THEN since[u] \cup {Status(b2)} \cup (IF b2 = Empty THEN {Reset} ELSE {})
                    ELSE since[u]
    BY <1>5, <1>8
  <2> QED BY <1>2, <1>3, <1>5, <2>1, <2>2, BoardChanges
<1> QED BY <1>6, <1>7, <1>8 DEF IInv

LEMMA ArriveKeeps ==
  ASSUME IInv, NEW t \in Threads, NEW verb, NEW path, Arrive(t, verb, path)
  PROVE  IInv'
<1>1. PICK view : view = Target(path)
  OBVIOUS
<1>2. PICK r : r = [req[t] EXCEPT !.verb = verb, !.view = view]
  OBVIOUS
<1>3. Kept(t) /\ req[t].at = "new" /\ since' = [since EXCEPT ![t] = since[t]]
  BY DEF IInv, Arrive, TypeOK
<1>4. r = [at |-> "new", verb |-> verb, view |-> view, todo |-> req[t].todo,
           shown |-> req[t].shown, said |-> req[t].said, code |-> req[t].code, kept |-> req[t].kept]
  <2>1. PICK q : q = req[t]
    OBVIOUS
  <2>2. q = [at |-> "new", verb |-> q.verb, view |-> q.view, todo |-> q.todo,
             shown |-> q.shown, said |-> q.said, code |-> q.code, kept |-> q.kept]
    BY <1>3, <2>1 DEF Kept, Keeps, Placed
  <2>3. r = [q EXCEPT !.verb = verb, !.view = view]
    BY <1>2, <2>1
  <2>4. r = [at |-> "new", verb |-> verb, view |-> view, todo |-> q.todo,
             shown |-> q.shown, said |-> q.said, code |-> q.code, kept |-> q.kept]
    <3>1. PICK p1, p2, p3, p4, p7 : p1 = q.todo /\ p2 = q.shown /\ p3 = q.said /\ p4 = q.code /\ p7 = q.kept
      OBVIOUS
    <3>2. PICK p5, p6 : p5 = q.verb /\ p6 = q.view
      OBVIOUS
    <3>3. q = [at |-> "new", verb |-> p5, view |-> p6, todo |-> p1,
               shown |-> p2, said |-> p3, code |-> p4, kept |-> p7]
      BY <2>2, <3>1, <3>2
    <3>4. r = [at |-> "new", verb |-> verb, view |-> view, todo |-> p1,
               shown |-> p2, said |-> p3, code |-> p4, kept |-> p7]
      BY <2>3, <3>3
    <3> QED BY <3>1, <3>4
  <2> QED BY <2>1, <2>4
<1>5. wrote[t] = <<>> /\ since[t] = {} /\ DOMAIN r.shown = {} /\ r.said # "ok"
  BY <1>3, <1>4 DEF Kept, Keeps, Told, Fresh
<1>6. \A b : Keeps(r, wrote[t], since[t], b)
  <2>1. req[t].kept \in Failures \cup {"none"}
    BY <1>3 DEF Kept, Keeps, Placed
  <2> QED BY <1>4, <1>5, <2>1 DEF Keeps, Placed, Told, Fresh, Right, Whole
<1>7. PICK next : /\ req' = [req EXCEPT ![t] = next]
                  /\ \/ view.kind \in {"malformed", "none"} /\ \E code : next = Answered(r, code)
                     \/ /\ view.kind \in Served
                        /\ \/ next = [r EXCEPT !.at = "describing"]
                           \/ next = Routed(r, TRUE)
  <2>1. PICK next :
          /\ req' = [req EXCEPT ![t] = next]
          /\ next = CASE view.kind = "malformed" -> Answered(r, 400)
                       [] view.kind = "none" -> Answered(r, 404)
                       [] view \notin {Malform, NoView} /\ AsksForGame(verb, view) ->
                            [r EXCEPT !.at = "describing"]
                       [] OTHER -> Routed(r, TRUE)
    <3>1. PICK next : next = CASE view.kind = "malformed" -> Answered(r, 400)
                               [] view.kind = "none" -> Answered(r, 404)
                               [] view \notin {Malform, NoView} /\ AsksForGame(verb, view) ->
                                    [r EXCEPT !.at = "describing"]
                               [] OTHER -> Routed(r, TRUE)
      OBVIOUS
    <3>2. req' = [req EXCEPT ![t] = next]
      BY <1>1, <1>2, <3>1, Zenon DEF Arrive
    <3> QED BY <3>1, <3>2
  <2>2. view \in {Malform, NoView} \/ view.kind \in Served
    BY <1>1, Targets
  <2>3. CASE view = Malform
    <3>1. next = Answered(r, 400)
      BY <2>1, <2>3, RefusedViews
    <3>2. view.kind \in {"malformed", "none"} /\ \E code : next = Answered(r, code)
      BY <2>3, <3>1, RefusedViews
    <3> QED BY <2>1, <3>2
  <2>4. CASE view = NoView
    <3>1. next = Answered(r, 404)
      BY <2>1, <2>4, RefusedViews
    <3>2. view.kind \in {"malformed", "none"} /\ \E code : next = Answered(r, code)
      BY <2>4, <3>1, RefusedViews
    <3> QED BY <2>1, <3>2
  <2>5. CASE view.kind \in Served
    <3>1. next = [r EXCEPT !.at = "describing"] \/ next = Routed(r, TRUE)
      BY <2>1, <2>5, RefusedViews DEF Served
    <3> QED BY <2>1, <2>5, <3>1
  <2> QED BY <2>2, <2>3, <2>4, <2>5
<1>8. \A b : Keeps(next, wrote[t], since[t], b)
  <2> SUFFICES ASSUME NEW b PROVE Keeps(next, wrote[t], since[t], b)
    OBVIOUS
  <2>1. CASE view.kind \in {"malformed", "none"} /\ \E code : next = Answered(r, code)
    BY <1>4, <1>5, <1>6, <2>1, AnsweredKeeps
  <2>2. CASE view.kind \in Served /\ next = [r EXCEPT !.at = "describing"]
    <3>1. next = [at |-> "describing", verb |-> verb, view |-> view, todo |-> req[t].todo,
                  shown |-> req[t].shown, said |-> req[t].said, code |-> req[t].code, kept |-> req[t].kept]
      BY <1>4, <2>2
    <3>2. req[t].kept \in Failures \cup {"none"}
      BY <1>3 DEF Kept, Keeps, Placed
    <3> QED BY <1>4, <1>5, <2>2, <3>1, <3>2 DEF Keeps, Placed, Told, Fresh, Right, Whole
  <2>3. CASE view.kind \in Served /\ next = Routed(r, TRUE)
    BY <1>4, <1>6, <2>3, RoutedKeeps
  <2> QED BY <1>7, <2>1, <2>2, <2>3
<1> QED BY <1>3, <1>7, <1>8, OneKeeps DEF Arrive
\* No answer changes what a request asked for.
LEMMA AnsweredView ==
  ASSUME NEW r, Placed(r), NEW code
  PROVE  Answered(r, code).view = r.view
BY DEF Placed, Answered

LEMMA RaisedView ==
  ASSUME NEW r, Placed(r), NEW error
  PROVE  Raised(r, error).view = r.view
<1>1. [r EXCEPT !.at = "failed", !.todo = <<>>].view = r.view
  BY DEF Placed
<1> QED BY <1>1, AnsweredView DEF Raised

LEMMA SplicedView ==
  ASSUME NEW r, NEW at, NEW verb, NEW view, NEW todo, NEW shown, NEW said, NEW code, NEW kept,
         r = [at |-> at, verb |-> verb, view |-> view, todo |-> todo,
              shown |-> shown, said |-> said, code |-> code, kept |-> kept]
  PROVE  Spliced(r).view = view
<1>1. \A c : Answered(r, c).view = view
  BY DEF Answered
<1>2. [r EXCEPT !.at = "failed", !.todo = <<>>].view = view
  OBVIOUS
<1>3. \A error : Raised(r, error).view = view
  BY <1>1, <1>2 DEF Raised
<1> QED BY <1>1, <1>3 DEF Spliced

LEMMA FailedView ==
  ASSUME NEW r, Placed(r), NEW step, NEW error
  PROVE  Failed(r, step, error).view = r.view
<1>1. PICK todo, kept : todo = Tail(r.todo) /\ kept = IF r.kept = "none" THEN error ELSE r.kept
  OBVIOUS
<1>2. PICK a : a = [r EXCEPT !.todo = todo, !.kept = kept]
  OBVIOUS
<1>3. a = [at |-> r.at, verb |-> r.verb, view |-> r.view, todo |-> todo,
           shown |-> r.shown, said |-> r.said, code |-> r.code, kept |-> kept]
  BY <1>2 DEF Placed
<1>4. Spliced(a).view = r.view
  BY <1>3, SplicedView
<1>5. a = [r EXCEPT !.todo = Tail(@), !.kept = IF @ = "none" THEN error ELSE @]
  BY <1>1, <1>2
<1>6. Failed(r, step, error) \in {Spliced(a), Raised(r, error)}
  BY <1>5 DEF Failed
<1> QED BY <1>4, <1>6, RaisedView

LEMMA WentView ==
  ASSUME NEW r, Placed(r), NEW step, NEW value
  PROVE  Went(r, step, value).view = r.view
<1>1. PICK todo : todo = FollowUp(step, value) \o Tail(r.todo)
  OBVIOUS
<1>2. PICK shown : shown = [p \in DOMAIN r.shown \cup DOMAIN Shows(step, value) |->
                              IF p \in DOMAIN Shows(step, value) THEN Shows(step, value)[p] ELSE r.shown[p]]
  OBVIOUS
<1>3. PICK a : a = [r EXCEPT !.todo = todo, !.shown = shown]
  OBVIOUS
<1>4. Went(r, step, value) = Spliced(a)
  BY <1>1, <1>2, <1>3 DEF Went
<1>5. a = [at |-> r.at, verb |-> r.verb, view |-> r.view, todo |-> todo,
           shown |-> shown, said |-> r.said, code |-> r.code, kept |-> r.kept]
  BY <1>3 DEF Placed
<1>6. Spliced(a).view = r.view
  BY <1>5, SplicedView
<1> QED BY <1>4, <1>6

LEMMA SaidView ==
  ASSUME NEW r, Placed(r), NEW word, NEW step
  PROVE  Went([r EXCEPT !.said = word], step, "text").view = r.view
<1>1. PICK q : q = [r EXCEPT !.said = word]
  OBVIOUS
<1>2. q = [at |-> r.at, verb |-> r.verb, view |-> r.view, todo |-> r.todo,
           shown |-> r.shown, said |-> word, code |-> r.code, kept |-> r.kept]
  BY <1>1 DEF Placed
<1>3. PICK todo : todo = FollowUp(step, "text") \o Tail(q.todo)
  OBVIOUS
<1>4. PICK shown : shown = [p \in DOMAIN q.shown \cup DOMAIN Shows(step, "text") |->
                              IF p \in DOMAIN Shows(step, "text") THEN Shows(step, "text")[p] ELSE q.shown[p]]
  OBVIOUS
<1>5. PICK a : a = [q EXCEPT !.todo = todo, !.shown = shown]
  OBVIOUS
<1>6. Went(q, step, "text") = Spliced(a)
  BY <1>3, <1>4, <1>5 DEF Went
<1>7. a = [at |-> r.at, verb |-> r.verb, view |-> r.view, todo |-> todo,
           shown |-> shown, said |-> word, code |-> r.code, kept |-> r.kept]
  BY <1>2, <1>5
<1>8. Spliced(a).view = r.view
  BY <1>7, SplicedView
<1>9. Went(q, step, "text").view = r.view
  BY <1>6, <1>8
<1> QED BY <1>1, <1>9

LEMMA DescribeKeeps ==
  ASSUME IInv, NEW t \in Threads, Describe(t)
  PROVE  IInv'
<1>1. PICK r : r = req[t]
  OBVIOUS
<1>2. Keeps(r, wrote[t], since[t], BoardOf(r)) /\ r.at = "describing"
  BY <1>1 DEF IInv, Kept, Describe
<1>3. UNCHANGED <<board, wrote>> /\ since' = [since EXCEPT ![t] = since[t]]
  BY DEF IInv, TypeOK, Describe
<1>4. CASE req' = [req EXCEPT ![t] = Routed(r, Known(r.view.game))]
  <2>1. PICK next : next = Routed(r, Known(r.view.game))
    OBVIOUS
  <2>2. next.view = r.view /\ Known(r.view.game) \in BOOLEAN /\ r.view.kind \in Served
    BY <1>2, <2>1 DEF Keeps, Placed, Routed, Answered, Known
  <2>3. Keeps(next, wrote[t], since[t], BoardOf(r))
    BY <1>2, <2>1, <2>2, RoutedKeeps
  <2> QED BY <1>3, <1>4, <2>1, <2>2, <2>3, OneKeeps DEF BoardOf
<1>5. ASSUME NEW f \in Failures, req' = [req EXCEPT ![t] = Raised(r, f)]
      PROVE  IInv'
  <2>1. PICK next : next = Raised(r, f)
    OBVIOUS
  <2>2. Keeps(next, wrote[t], since[t], BoardOf(r))
    BY <1>2, <2>1, RaisedKeeps
  <2>3. next.view = r.view
    BY <1>2, <2>1, RaisedView DEF Keeps
  <2> QED BY <1>3, <1>5, <2>1, <2>2, <2>3, OneKeeps DEF BoardOf
<1> QED BY <1>1, <1>4, <1>5 DEF Describe

LEMMA DescribeAgainKeeps ==
  ASSUME IInv, NEW t \in Threads, DescribeAgain(t)
  PROVE  IInv'
<1>1. PICK r : r = req[t]
  OBVIOUS
<1>2. Keeps(r, wrote[t], since[t], BoardOf(r)) /\ r.at = "failed"
  BY <1>1 DEF IInv, Kept, DescribeAgain
<1>3. PICK next : next = Answered(r, 404)
  OBVIOUS
<1>4. wrote[t] = <<>>
  BY <1>2 DEF Keeps, Told
<1>5. Keeps(next, wrote[t], since[t], BoardOf(r))
  BY <1>2, <1>3, <1>4, AnsweredKeeps
<1>6. next.view = r.view
  BY <1>2, <1>3, AnsweredView DEF Keeps
<1>7. /\ UNCHANGED <<board, wrote>> /\ since' = [since EXCEPT ![t] = since[t]]
      /\ req' = [req EXCEPT ![t] = next]
  BY <1>1, <1>3 DEF IInv, TypeOK, DescribeAgain
<1> QED BY <1>5, <1>6, <1>7, OneKeeps DEF BoardOf

LEMMA ReadKeeps ==
  ASSUME IInv, NEW t \in Threads, Read(t)
  PROVE  IInv'
<1>1. PICK r : r = req[t]
  OBVIOUS
<1>2. PICK step : step = Head(r.todo)
  OBVIOUS
<1>3. /\ Keeps(r, wrote[t], since[t], BoardOf(r)) /\ r.at = "serving" /\ step.what # "sink"
      /\ UNCHANGED <<board, wrote>> /\ TypeOK
  BY <1>1, <1>2 DEF IInv, Kept, Read
<1>4. ASSUME NEW error, req' = [req EXCEPT ![t] = Raised(r, error)], UNCHANGED since,
             \/ error = "Unresolved" /\ ~Known(r.view.game)
             \/ error \in Failures
             \/ error \in {"InvalidArgument", "Conflict"} /\ step.what = "spelling"
      PROVE  IInv'
  <2>1. step.what = "spelling" => wrote[t] = <<>>
    <3>1. r.todo \in Left(r.view)
      BY <1>3 DEF Keeps, Placed
    <3>2. step.what = "spelling" => r.todo \notin StatusLeft
      BY <1>2, <3>1, LeftSteps
    <3> QED BY <1>3, <3>2 DEF Keeps, Told
  <2>2. PICK next : next = Raised(r, error)
    OBVIOUS
  <2>3. Keeps(next, wrote[t], since[t], BoardOf(r))
    BY <1>3, <1>4, <2>1, <2>2, RaisedKeeps
  <2>4. next.view = r.view
    BY <1>3, <2>2, RaisedView DEF Keeps
  <2>5. since' = [since EXCEPT ![t] = since[t]]
    BY <1>3, <1>4 DEF TypeOK
  <2> QED BY <1>3, <1>4, <2>2, <2>3, <2>4, <2>5, OneKeeps DEF BoardOf
<1>5. ASSUME Known(r.view.game),
             req' = [req EXCEPT ![t] = Went(r, step, Answer(step, board[Prefix(r.view.game)]))],
             since' = [since EXCEPT ![t] = IF @ = {} THEN {Status(board[Prefix(r.view.game)])} ELSE @]
      PROVE  IInv'
  <2>1. PICK b \in Boards : b = board[Prefix(r.view.game)] /\ b = BoardOf(r)
    BY <1>3, <1>5, BoardKnown
  <2>2. PICK s2 : s2 = IF since[t] = {} THEN {Status(b)} ELSE since[t]
    OBVIOUS
  <2>3. PICK next : next = Went(r, step, Answer(step, b))
    OBVIOUS
  <2>4. Keeps(next, wrote[t], s2, b)
    BY <1>2, <1>3, <1>5, <2>1, <2>2, <2>3, WentKeeps
  <2>5. next.view = r.view
    BY <1>3, <2>3, WentView DEF Keeps
  <2>6. since' = [since EXCEPT ![t] = s2] /\ req' = [req EXCEPT ![t] = next]
    BY <1>3, <1>5, <2>1, <2>2, <2>3 DEF TypeOK
  <2> QED BY <1>3, <2>1, <2>4, <2>5, <2>6, OneKeeps DEF BoardOf
<1>6. \/ ~Known(r.view.game) /\ req' = [req EXCEPT ![t] = Raised(r, "Unresolved")] /\ UNCHANGED since
      \/ step.what = "spelling" /\ req' = [req EXCEPT ![t] = Raised(r, "InvalidArgument")] /\ UNCHANGED since
      \/ /\ Known(r.view.game)
         /\ req' = [req EXCEPT ![t] = Went(r, step, Answer(step, board[Prefix(r.view.game)]))]
         /\ since' = [since EXCEPT ![t] = IF @ = {} THEN {Status(board[Prefix(r.view.game)])} ELSE @]
      \/ \E f \in Failures : req' = [req EXCEPT ![t] = Failed(r, step, f)] /\ UNCHANGED since
  BY <1>1, <1>2 DEF Read
<1>7. ASSUME NEW f \in Failures, req' = [req EXCEPT ![t] = Failed(r, step, f)], UNCHANGED since
      PROVE  IInv'
  <2>1. CASE step.what \in {"square", "empty", "taken"}
    <3>1. PICK next : next = Failed(r, step, f)
      OBVIOUS
    <3>2. Keeps(next, wrote[t], since[t], BoardOf(r))
      BY <1>2, <1>3, <2>1, <3>1, FailedKeeps
    <3>3. next.view = r.view
      BY <1>3, <3>1, FailedView DEF Keeps
    <3>4. since' = [since EXCEPT ![t] = since[t]]
      BY <1>3, <1>7 DEF TypeOK
    <3> QED BY <1>3, <1>7, <3>1, <3>2, <3>3, <3>4, OneKeeps DEF BoardOf
  <2>2. CASE step.what \notin {"square", "empty", "taken"}
    <3>1. Failed(r, step, f) = Raised(r, f)
      BY <2>2 DEF Failed
    <3> QED BY <1>4, <1>7, <3>1
  <2> QED BY <2>1, <2>2
<1> QED BY <1>4, <1>5, <1>6, <1>7

LEMMA SinkActionKeeps ==
  ASSUME IInv, NEW t \in Threads, Sink(t)
  PROVE  IInv'
<1>1. PICK r : r = req[t]
  OBVIOUS
<1>2. /\ Keeps(r, wrote[t], since[t], BoardOf(r)) /\ r.at = "serving" /\ Head(r.todo).what = "sink"
      /\ TypeOK
  BY <1>1 DEF IInv, Kept, Sink
<1>3. r.view.kind \in Writing /\ wrote[t] = <<>>
  BY <1>2, SinkIsAWrite DEF Keeps, Told
<1>4. ASSUME Known(r.view.game), Takes(board[Prefix(r.view.game)], r.view), Carried(t),
             NEW word, req' = [req EXCEPT ![t] = Went([r EXCEPT !.said = word], Head(r.todo), "text")]
      PROVE  IInv'
  <2>1. PICK b \in Boards : b = board[Prefix(r.view.game)] /\ b = BoardOf(r)
    BY <1>2, <1>4, BoardKnown
  <2>2. PICK b2 : b2 = Written(b, r.view)
    OBVIOUS
  <2>3. b2 \in Boards
    BY <1>3, <1>4, <2>1, <2>2, EmptyBoard, MoveAdds DEF Written, Takes, Writing
  <2>4. PICK w : w = Append(wrote[t], <<Prefix(r.view.game), r.view.kind, r.view.cell>>)
    OBVIOUS
  <2>5. w # <<>>
    BY <1>3, <2>4
  <2>6. PICK next : next = Went([r EXCEPT !.said = word], Head(r.todo), "text")
    OBVIOUS
  <2>7. PICK s2 : s2 = {Status(b2)}
    OBVIOUS
  <2>8. Keeps(next, w, s2, b2)
    BY <1>2, <1>4, <2>3, <2>4, <2>5, <2>6, <2>7, SinkKeeps
  <2>9. next.view = r.view
    BY <1>2, <2>6, SaidView DEF Keeps
  <2> QED BY <1>1, <1>3, <1>4, <2>1, <2>2, <2>4, <2>6, <2>7, <2>8, <2>9, CarriedKeeps
<1>5. ASSUME UNCHANGED <<board, wrote, since>>,
             req' = [req EXCEPT ![t] = Went([r EXCEPT !.said = "refused"], Head(r.todo), "text")]
      PROVE  IInv'
  <2>1. PICK next : next = Went([r EXCEPT !.said = "refused"], Head(r.todo), "text")
    OBVIOUS
  <2>2. PICK b : b = BoardOf(r)
    OBVIOUS
  <2>3. PICK w, s, word : w = wrote[t] /\ s = since[t] /\ word = "refused"
    OBVIOUS
  <2>4. Keeps(next, w, s, b)
    <3>1. Keeps(r, w, s, b) /\ (word = "ok" => w # <<>>)
      BY <1>2, <2>2, <2>3
    <3>2. next = Went([r EXCEPT !.said = word], Head(r.todo), "text")
      BY <2>1, <2>3
    <3> QED BY <1>2, <3>1, <3>2, SinkKeeps
  <2>5. next.view = r.view
    BY <1>2, <2>1, SaidView DEF Keeps
  <2>6. since' = [since EXCEPT ![t] = since[t]]
    BY <1>2, <1>5 DEF TypeOK
  <2> QED BY <1>5, <2>1, <2>2, <2>3, <2>4, <2>5, <2>6, OneKeeps DEF BoardOf
<1>6. ASSUME UNCHANGED <<board, wrote, since>>, req' = [req EXCEPT ![t] = Raised(r, "Conflict")]
      PROVE  IInv'
  <2>1. PICK next : next = Raised(r, "Conflict")
    OBVIOUS
  <2>2. Keeps(next, wrote[t], since[t], BoardOf(r))
    BY <1>2, <1>3, <2>1, RaisedKeeps
  <2>3. next.view = r.view
    BY <1>2, <2>1, RaisedView DEF Keeps
  <2>4. since' = [since EXCEPT ![t] = since[t]]
    BY <1>2, <1>6 DEF TypeOK
  <2> QED BY <1>6, <2>1, <2>2, <2>3, <2>4, OneKeeps DEF BoardOf
<1>7. \/ /\ Known(r.view.game) /\ Takes(board[Prefix(r.view.game)], r.view) /\ Carried(t)
         /\ \E word : req' = [req EXCEPT ![t] = Went([r EXCEPT !.said = word], Head(r.todo), "text")]
      \/ /\ UNCHANGED <<board, wrote, since>>
         /\ \/ req' = [req EXCEPT ![t] = Went([r EXCEPT !.said = "refused"], Head(r.todo), "text")]
            \/ req' = [req EXCEPT ![t] = Raised(r, "Conflict")]
  BY <1>1 DEF Sink
<1> QED BY <1>4, <1>5, <1>6, <1>7

LEMMA LostActionKeeps ==
  ASSUME IInv, NEW t \in Threads, Lost(t)
  PROVE  IInv'
<1>1. PICK r : r = req[t]
  OBVIOUS
<1>2. PICK next : next = IF r.at = "failed" THEN [r EXCEPT !.at = "dropped"] ELSE Answered(r, 503)
  OBVIOUS
<1>3. /\ Keeps(r, wrote[t], since[t], BoardOf(r)) /\ r.at \in {"describing", "serving", "failed"}
      /\ TypeOK /\ req' = [req EXCEPT ![t] = next]
  BY <1>1, <1>2 DEF IInv, Kept, Lost
<1>4. next.view = r.view
  <2>1. [r EXCEPT !.at = "dropped"].view = r.view
    BY <1>3 DEF Keeps, Placed
  <2> QED BY <1>2, <1>3, <2>1, AnsweredView DEF Keeps
<1>5. CASE UNCHANGED <<board, wrote, since>>
  <2>1. Keeps(next, wrote[t], since[t], BoardOf(r))
    <3>1. CASE r.at = "failed"
      <4>1. PICK d : d = [r EXCEPT !.at = "dropped"]
        OBVIOUS
      <4>2. d = [at |-> "dropped", verb |-> r.verb, view |-> r.view, todo |-> r.todo,
                 shown |-> r.shown, said |-> r.said, code |-> r.code, kept |-> r.kept]
        BY <1>3, <4>1 DEF Keeps, Placed
      <4>3. Placed(d) /\ Whole(d)
        BY <1>3, <4>2 DEF Keeps, Placed, Whole
      <4>4. Told(d, wrote[t])
        BY <1>3, <3>1, <4>2 DEF Keeps, Told
      <4>5. Fresh(d, since[t], BoardOf(r))
        BY <1>3, <4>2 DEF Keeps, Fresh
      <4> QED BY <1>2, <3>1, <4>1, <4>3, <4>4, <4>5 DEF Keeps
    <3>2. CASE r.at # "failed"
      BY <1>2, <1>3, <3>2, AnsweredKeeps
    <3> QED BY <3>1, <3>2
  <2>2. since' = [since EXCEPT ![t] = since[t]]
    BY <1>3, <1>5 DEF TypeOK
  <2> QED BY <1>3, <1>4, <1>5, <2>1, <2>2, OneKeeps DEF BoardOf
<1>6. CASE /\ r.at = "serving" /\ Head(r.todo).what = "sink" /\ Known(r.view.game)
           /\ Takes(board[Prefix(r.view.game)], r.view) /\ Carried(t)
  <2>1. PICK b \in Boards : b = board[Prefix(r.view.game)] /\ b = BoardOf(r)
    BY <1>3, <1>6, BoardKnown
  <2>2. PICK b2 : b2 = Written(b, r.view)
    OBVIOUS
  <2>3. r.view.kind \in Writing
    BY <1>3, <1>6, SinkIsAWrite DEF Keeps
  <2>4. b2 \in Boards
    BY <1>6, <2>1, <2>2, <2>3, EmptyBoard, MoveAdds DEF Written, Takes, Writing
  <2>5. PICK w : w = Append(wrote[t], <<Prefix(r.view.game), r.view.kind, r.view.cell>>)
    OBVIOUS
  <2>6. Keeps(next, w, {Status(b2)}, b2)
    <3>1. next = Answered(r, 503)
      BY <1>2, <1>6
    <3>2. PICK v, s : v = wrote[t] /\ s = since[t] /\ Keeps(r, v, s, b)
      BY <1>3, <2>1
    <3>3. w = WriteAdded(v, r)
      BY <2>5, <3>2 DEF WriteAdded
    <3>4. r.at = "serving" /\ Head(r.todo).what = "sink" /\ Known(r.view.game)
      BY <1>6
    <3>5. PICK s2 : s2 = {Status(b2)}
      OBVIOUS
    <3>6. Keeps(next, w, s2, b2)
      BY ONLY <2>4, <3>1, <3>2, <3>3, <3>4, <3>5, LostKeeps
    <3> QED BY <3>5, <3>6
  <2> QED BY <1>1, <1>3, <1>4, <1>6, <2>1, <2>2, <2>3, <2>5, <2>6, CarriedKeeps
<1>7. \/ UNCHANGED <<board, wrote, since>>
      \/ /\ r.at = "serving" /\ Head(r.todo).what = "sink" /\ Known(r.view.game)
         /\ Takes(board[Prefix(r.view.game)], r.view) /\ Carried(t)
  BY <1>1 DEF Lost
<1> QED BY <1>5, <1>6, <1>7

LEMMA ElsewhereKeeps ==
  ASSUME IInv, NEW g \in DOMAIN board, Elsewhere(g)
  PROVE  IInv'
<1>1. PICK b2 : /\ \/ b2 = Empty
                   \/ \E c \in Cells : Legal(board[g], c) /\ b2 = Moved(board[g], c)
                /\ board' = [board EXCEPT ![g] = b2]
                /\ Noted(g, b2, {})
                /\ UNCHANGED <<req, wrote>>
  BY DEF Elsewhere
<1>2. TypeOK /\ board[g] \in Boards
  BY DEF IInv, TypeOK
<1>3. b2 \in Boards
  BY <1>1, <1>2, EmptyBoard, MoveAdds
<1>4. since' = [u \in Threads |->
        IF since[u] # {} /\ req[u].at = "serving" /\ Prefix(req[u].view.game) = g
        THEN since[u] \cup {Status(b2)} \cup (IF b2 = Empty THEN {Reset} ELSE {})
        ELSE since[u]]
  BY <1>1 DEF Noted
<1>5. TypeOK'
  BY <1>1, <1>2, <1>3, <1>4 DEF TypeOK
<1>6. ASSUME NEW u \in Threads PROVE Kept(u)'
  <2>1. since'[u] = IF since[u] # {} /\ req[u].at = "serving" /\ Prefix(req[u].view.game) = g
                    THEN since[u] \cup {Status(b2)} \cup (IF b2 = Empty THEN {Reset} ELSE {})
                    ELSE since[u]
    BY <1>4
  <2> QED BY <1>1, <2>1, BoardChanges
<1> QED BY <1>5, <1>6 DEF IInv

LEMMA StutterKeeps ==
  ASSUME IInv, UNCHANGED vars
  PROVE  IInv'
<1>1. TypeOK'
  BY DEF IInv, TypeOK, vars
<1>2. ASSUME NEW u \in Threads PROVE Kept(u)'
  BY SameKeeps DEF IInv, vars
<1> QED BY <1>1, <1>2 DEF IInv

LEMMA NextKeeps == IInv /\ [Next]_vars => IInv'
<1> SUFFICES ASSUME IInv, [Next]_vars PROVE IInv'
  OBVIOUS
<1>1. ASSUME NEW t \in Threads, NEW verb \in Verbs, NEW path \in Paths, Arrive(t, verb, path) PROVE IInv'
  BY <1>1, ArriveKeeps
<1>2. ASSUME NEW t \in Threads, Handle(t) PROVE IInv'
  <2>1. CASE Describe(t)
    BY <2>1, DescribeKeeps
  <2>2. CASE DescribeAgain(t)
    BY <2>2, DescribeAgainKeeps
  <2>3. CASE Read(t)
    BY <2>3, ReadKeeps
  <2>4. CASE Sink(t)
    BY <2>4, SinkActionKeeps
  <2>5. CASE Lost(t)
    BY <2>5, LostActionKeeps
  <2> QED BY <1>2, <2>1, <2>2, <2>3, <2>4, <2>5 DEF Handle
<1>3. ASSUME NEW g \in DOMAIN board, Elsewhere(g) PROVE IInv'
  BY <1>3, ElsewhereKeeps
<1>4. CASE UNCHANGED vars
  BY <1>4, StutterKeeps
<1> QED BY <1>1, <1>2, <1>3, <1>4 DEF Next

-----------------------------------------------------------------------------
(* The theorems. *)

\* Whatever the app's threads, the other players and the host do, a request is
\* where its handler can be, with the write it was told of and what it showed of
\* its game: the code is Handler.handle_request and what it calls.
THEOREM RequestsKept == Spec => []IInv
BY InitKeeps, NextKeeps, PTL DEF Spec

\* The answer tells what was written, for any number of requests, any paths,
\* methods and boards: handle_request's refusals, reply and its except clauses.
THEOREM AnswersTell == Spec => []AnswerTellsTheWrite
<1>1. ASSUME IInv PROVE AnswerTellsTheWrite
  <2>1. ASSUME NEW t \in Threads
        PROVE  LET r == req[t]
               IN  /\ Len(wrote[t]) <= 1
                   /\ wrote[t] # <<>> =>
                        /\ r.verb \in {"POST", "PUT"}
                        /\ wrote[t] = << <<Prefix(r.view.game), r.view.kind, r.view.cell>> >>
                        /\ r.at = "answered" => r.code \in {200, 500, 503}
                   /\ r.said = "ok" => wrote[t] # <<>>
    <3>1. Told(req[t], wrote[t])
      BY <1>1 DEF IInv, Kept, Keeps
    <3>2. Len(wrote[t]) <= 1
      <4>1. CASE wrote[t] = <<>>
        BY <4>1
      <4>2. CASE wrote[t] # <<>>
        <5>1. PICK x : wrote[t] = <<x>>
          BY <3>1, <4>2 DEF Told
        <5> QED BY <5>1
      <4> QED BY <4>1, <4>2
    <3> QED BY <3>1, <3>2 DEF Told
  <2> QED BY <2>1 DEF AnswerTellsTheWrite
<1> QED BY <1>1, RequestsKept, PTL

\* What a view shows is of the game as it was since the request's own write, for
\* any number of requests, players elsewhere and boards of any size: board,
\* status and reply, which compose it from several reads.
THEOREM ViewsOfTheGame == Spec => []ViewIsOfTheGame
<1>1. ASSUME IInv PROVE ViewIsOfTheGame
  <2>1. ASSUME NEW t \in Threads, NEW r, r = req[t], Reset \notin since[t]
        PROVE  /\ "-" \notin {r.shown[p] : p \in DOMAIN r.shown \ {<<"status">>}}
               /\ <<"status">> \in DOMAIN r.shown =>
                    \/ r.shown[ <<"status">> ] \in since[t]
                    \/ Cardinality(since[t]) > 1 /\ r.shown[ <<"status">> ] = <<"-", "to play">>
    <3>1. Right(r.shown, since[t]) /\ since[t] \subseteq Statuses \cup {Reset}
      BY <1>1, <2>1 DEF IInv, Kept, Keeps, Fresh
    <3>2. IsFiniteSet(since[t])
      BY <3>1, FewStatuses, FS_Subset
    <3>3. (\E x, y \in since[t] : x # y) => Cardinality(since[t]) > 1
      BY <3>2, TwoAreMore
    <3> QED BY <3>1, <3>3 DEF Right
  <2>2. ASSUME NEW t \in Threads, req[t].at = "answered", req[t].code = 200, req[t].view.kind = "board"
        PROVE  Cells \subseteq DOMAIN req[t].shown
    BY <1>1, <2>2 DEF IInv, Kept, Keeps, Whole
  <2> SUFFICES ASSUME NEW t \in Threads
               PROVE  LET r == req[t]
                          shown == {r.shown[p] : p \in DOMAIN r.shown \ {<<"status">>}}
                      IN  r.at = "answered" /\ r.code = 200 =>
                            /\ r.view.kind = "board" => Cells \subseteq DOMAIN r.shown
                            /\ Reset \notin since[t] =>
                                 /\ "-" \notin shown
                                 /\ <<"status">> \in DOMAIN r.shown =>
                                      \/ r.shown[ <<"status">> ] \in since[t]
                                      \/ /\ Cardinality(since[t]) > 1
                                         /\ r.shown[ <<"status">> ] = <<"-", "to play">>
    BY Zenon DEF ViewIsOfTheGame
  <2>3. Reset \notin since[t] =>
          /\ "-" \notin {req[t].shown[p] : p \in DOMAIN req[t].shown \ {<<"status">>}}
          /\ <<"status">> \in DOMAIN req[t].shown =>
               \/ req[t].shown[ <<"status">> ] \in since[t]
               \/ /\ Cardinality(since[t]) > 1
                  /\ req[t].shown[ <<"status">> ] = <<"-", "to play">>
    BY <2>1
  <2> QED BY <2>2, <2>3, Zenon
<1> QED BY <1>1, RequestsKept, PTL
=============================================================================
