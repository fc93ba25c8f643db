------------------------------- MODULE TicTacToe -------------------------------
(***************************************************************************)
(* The tic-tac-toe web app (examples/tictactoe_app.py): a thread per HTTP   *)
(* request, each with a connection of its own to the host that keeps the    *)
(* games.  A request is one path and one method; its view is composed from  *)
(* several reads of the host, one round trip each, and other players move   *)
(* and reset in between.                                                    *)
(*                                                                          *)
(* The host (ttt-host) is not in this repository: its boards, its rule for  *)
(* a move and its answers for a game it lacks are modelled from how the app *)
(* uses them.  An action is what one thread runs from one round trip to the *)
(* next.                                                                    *)
(***************************************************************************)
EXTENDS Naturals, Sequences, FiniteSets, SequencesExt

CONSTANTS
  Threads,     \* one per request
  Paths,       \* the request targets, each a sequence of decoded segments
  Verbs,       \* the request methods
  Cells,       \* the squares of a board, each <<x, y>> in its plain spelling
  Rows,        \* the sets of squares that win
  Games,       \* the games the host has besides the root
  Failures     \* how a read or a write of a known game may fail

ASSUME TicTacToeAssumption ==
  /\ IsFiniteSet(Cells) /\ Cells \subseteq STRING \X STRING
  /\ Rows \subseteq SUBSET Cells
  /\ "root" \notin Games
  /\ Failures \subseteq {"Timeout", "Unavailable", "Other"}
  /\ \A p \in Paths : \A i \in DOMAIN p : p[i] \in STRING

VARIABLES
  board,   \* the host's boards
  req,     \* each thread's request
  wrote,   \* what the host did on a request's behalf (history)
  since    \* the statuses of a request's game since its last write (history)

vars == <<board, req, wrote, since>>

-----------------------------------------------------------------------------
(* The path: segments and target *)

\* A name's parts at the host that start every name of a game.
GAME == <<"iki", "tutorial", "ttt">>

Malformed == "%"          \* a segment with a malformed escape, or not UTF-8
NotAName == "<"           \* a segment no IRI may hold
Delimited == ":"          \* a segment with one of the delimiters GEN_DELIMS
StaticFiles == {"ttt.css"}

NoView == [kind |-> "none", game |-> "-", cell |-> <<>>]
Malform == [NoView EXCEPT !.kind = "malformed"]
View(kind, game, cell) == [kind |-> kind, game |-> game, cell |-> cell]

\* What the name `local` of a game is a view of.  A play's row is all that
\* follows its column.
Local(local, game) ==
  CASE local \in {<<"view", "board">>, <<"view", "status">>, <<"view", "reset">>} ->
         View(local[2], game, <<>>)
    [] Len(local) >= 4 /\ SubSeq(local, 1, 2) = <<"view", "play">> ->
         View("play", game, SubSeq(local, 3, Len(local)))
    [] OTHER -> NoView

\* `target`: the view a path names, or the refusal made before any routing.
\* Empty segments are dropped; "-" is the root game of a plain name.
Target(path) ==
  LET names == SelectSeq(path, LAMBDA s : s # "")
      Has(s) == Contains(names, s)
      found ==
        CASE names = <<>> -> View("page", "-", <<>>)
          [] Len(names) = 2 /\ names[1] = "game" ->
               IF names[2] = Delimited THEN Malform ELSE View("page", names[2], <<>>)
          [] Len(names) = 2 /\ names[1] = "static" /\ names[2] \in StaticFiles ->
               View("static", "-", <<>>)
          [] Len(names) > 5 /\ names[1] = "game" /\ SubSeq(names, 3, 5) = GAME ->
               Local(SubSeq(names, 6, Len(names)), names[2])
          [] Len(names) > 3 /\ SubSeq(names, 1, 3) = GAME ->
               Local(SubSeq(names, 4, Len(names)), "-")
          [] OTHER -> NoView
  IN  IF Has(Malformed) THEN Malform
      ELSE IF found # NoView /\ Has(NotAName) THEN Malform
      ELSE found

-----------------------------------------------------------------------------
(* The host *)

Known(game) == game \in Games \cup {"-", "root"}

\* The board a game's names lead to: `root` is the root game's other name.
Prefix(game) == IF game = "-" THEN "root" ELSE game

Marked(b, mark) == {c \in Cells : b[c] = mark}

Winner(b) ==
  IF \E row \in Rows : row \subseteq Marked(b, "X") THEN "X"
  ELSE IF \E row \in Rows : row \subseteq Marked(b, "O") THEN "O"
  ELSE IF Marked(b, "-") = {} THEN "draw" ELSE "-"

Turn(b) ==
  IF Winner(b) # "-" THEN "-"
  ELSE IF Cardinality(Marked(b, "X")) > Cardinality(Marked(b, "O")) THEN "O" ELSE "X"

\* What `view:status` says of a board.
Status(b) ==
  CASE Winner(b) = "-" -> <<Turn(b), "to play">>
    [] Winner(b) = "draw" -> <<"-", "draw">>
    [] OTHER -> <<Winner(b), "has won">>

Empty == [c \in Cells |-> "-"]
Legal(b, c) == b[c] = "-" /\ Winner(b) = "-"
Takes(b, view) == view.kind = "play" => view.cell \in Cells /\ Legal(b, view.cell)
Moved(b, c) == [b EXCEPT ![c] = Turn(b)]
Written(b, view) == IF view.kind = "reset" THEN Empty ELSE Moved(b, view.cell)

-----------------------------------------------------------------------------
(* The rules of the edge: respond and STATUS_OF *)

METHODS == {"GET", "HEAD", "POST", "PUT", "PATCH", "DELETE"}
READ == {"GET", "HEAD"}
WRITE == {"POST", "PUT", "PATCH"}

Methods(view) == IF view.kind \in {"play", "reset"} THEN WRITE ELSE READ

\* The mutant: the method is checked against every view's methods.
Bug_Respond(verb, view, known) ==
  CASE verb = "OPTIONS" -> 204
    [] verb # "OPTIONS" /\ verb \notin METHODS -> 405
    [] verb = "PATCH" -> 415
    [] OTHER -> 0

\* `respond`: the refusal of `verb` on `view`, or 0 when it is to be served.
\* `known` says whether the host has the view's game.
Respond(verb, view, known) ==
  CASE verb = "OPTIONS" -> 204
    [] verb # "OPTIONS" /\ verb \notin METHODS -> 405
    [] verb \in METHODS \ Methods(view) /\ known -> 405
    [] verb \in METHODS \ (Methods(view) \cup {"PATCH"}) /\ ~known -> 404
    [] verb = "PATCH" /\ (verb \in Methods(view) \/ ~known) -> 415
    [] OTHER -> 0

\* `respond` asks for the game only when a refusal depends on it.
AsksForGame(verb, view) == verb \notin Methods(view) /\ view.game # "-"

STATUS_OF(error) ==
  CASE error = "Denied" -> 403
    [] error \in {"NotFound", "Unresolved"} -> 404
    [] error = "Conflict" -> 409
    [] error \in {"MissingArgument", "InvalidArgument"} -> 400
    [] error \in {"Timeout", "Unavailable"} -> 503
    [] OTHER -> 500

-----------------------------------------------------------------------------
(* Composing a view: what is read, in which order *)

Step(what, cell) == [what |-> what, cell |-> cell]
Squares == [i \in 1..Cardinality(Cells) |-> Step("square", SetToSeq(Cells)[i])]
StatusView == <<Step("template", <<>>), Step("status", <<>>)>>

\* The mutant: the reply's status is composed before the write.
Bug_Script(view) ==
  CASE view.kind = "play" -> <<Step("spelling", view.cell)>> \o StatusView \o <<Step("sink", view.cell)>>
    [] view.kind = "reset" -> <<Step("sink", <<>>)>> \o StatusView
    [] view.kind = "status" -> StatusView
    [] view.kind = "board" -> <<Step("template", <<>>)>> \o Squares
    [] OTHER -> <<Step("template", <<>>), Step("entries", <<>>)>>

\* The round trips a view starts with.  A play reads its cell first, because
\* the host's own rule then refuses a spelling it does not take; a play and a
\* reset write, and compose their reply after it.
Script(view) ==
  CASE view.kind = "play" -> <<Step("spelling", view.cell), Step("sink", view.cell)>> \o StatusView
    [] view.kind = "reset" -> <<Step("sink", <<>>)>> \o StatusView
    [] view.kind = "status" -> StatusView
    [] view.kind = "board" -> <<Step("template", <<>>)>> \o Squares
    [] OTHER -> <<Step("template", <<>>), Step("entries", <<>>)>>

\* What a step reads of a board.
Answer(step, b) ==
  CASE step.what \in {"square", "taken"} -> b[step.cell]
    [] step.what \in {"empty", "status", "over", "won"} -> Winner(b)
    [] step.what = "turn" -> Turn(b)
    [] OTHER -> "text"

\* The round trips that follow a step that read `value`: `conditional` chooses
\* a template, and the template reads on.
FollowUp(step, value) ==
  CASE step.what = "square" -> <<Step(IF value = "-" THEN "empty" ELSE "taken", step.cell)>>
    [] step.what = "status" -> <<Step(IF value = "-" THEN "turn" ELSE "over", <<>>)>>
    [] step.what = "over" /\ value # "draw" -> <<Step("won", <<>>)>>
    [] OTHER -> <<>>

\* What a step that read `value` shows, as a function from a place.
Shows(step, value) ==
  CASE step.what = "taken" -> [c \in {step.cell} |-> value]
    [] step.what = "empty" -> [c \in {step.cell} |-> IF value = "-" THEN "open" ELSE "closed"]
    [] step.what = "turn" -> [p \in {<<"status">>} |-> <<value, "to play">>]
    [] step.what = "over" /\ value = "draw" -> [p \in {<<"status">>} |-> <<"-", "draw">>]
    [] step.what = "won" -> [p \in {<<"status">>} |-> <<value, "has won">>]
    [] OTHER -> [p \in {} |-> "-"]

-----------------------------------------------------------------------------
(* The requests *)

\* A request's place: "new", "describing" (respond asks for the game),
\* "serving" its steps, "failed" (an unresolved name, and the game is asked
\* for again), "answered", or "dropped" (the handler raised: no answer).
\* `kept` is the first failure among a level's markers, or "none".
Request == [at |-> "new", verb |-> "-", view |-> NoView, todo |-> <<>>,
            shown |-> [p \in {} |-> "-"], said |-> "-", code |-> 0, kept |-> "none"]

Init ==
  /\ board = [g \in Games \cup {"root"} |-> Empty]
  /\ req = [t \in Threads |-> Request]
  /\ wrote = [t \in Threads |-> <<>>]
  /\ since = [t \in Threads |-> {}]

Reset == <<"reset", "-">>

Answered(r, code) == [r EXCEPT !.at = "answered", !.code = code, !.todo = <<>>]

\* After `respond`: the refusal, a static file, or the view's steps.
Routed(r, known) ==
  LET code == Respond(r.verb, r.view, known)
  IN  IF code # 0 THEN Answered(r, code)
      ELSE IF r.view.kind = "static" THEN Answered(r, 200)
      ELSE [r EXCEPT !.at = "serving", !.todo = Script(r.view)]

\* handle_request up to its first round trip.
Arrive(t, verb, path) ==
  LET view == Target(path)
      r == [req[t] EXCEPT !.verb = verb, !.view = view]
  IN  /\ req[t].at = "new"
      /\ req' = [req EXCEPT ![t] =
           CASE view.kind = "malformed" -> Answered(r, 400)
             [] view.kind = "none" -> Answered(r, 404)
             [] view \notin {Malform, NoView} /\ AsksForGame(verb, view) -> [r EXCEPT !.at = "describing"]
             [] OTHER -> Routed(r, TRUE)]
      /\ UNCHANGED <<board, wrote, since>>

\* The mutant: the game is asked for whatever the error was.
Bug_Raised(r, error) ==
  IF r.view.game # "-" THEN [r EXCEPT !.at = "failed", !.todo = <<>>]
  ELSE Answered(r, STATUS_OF(error))

\* The except clause for an EndpointError: an unresolved name of a game that
\* may be missing is looked into (a round trip more); any other error has its
\* status.
Raised(r, error) ==
  IF error = "Unresolved" /\ r.view.game # "-"
  THEN [r EXCEPT !.at = "failed", !.todo = <<>>]
  ELSE Answered(r, STATUS_OF(error))

\* `described()` within respond: the game's `turn` is read.
Describe(t) ==
  LET r == req[t]
  IN  /\ r.at = "describing"
      /\ \/ req' = [req EXCEPT ![t] = Routed(r, Known(r.view.game))]
         \/ \E f \in Failures :
              /\ Known(r.view.game)
              /\ req' = [req EXCEPT ![t] = Raised(r, f)]
      /\ UNCHANGED <<board, wrote, since>>

\* `described()` within the except clause.  Nothing catches what it raises
\* there: see Lost.  The host has every name of a game it knows, so the game
\* is one it lacks.
DescribeAgain(t) ==
  /\ req[t].at = "failed"
  /\ req' = [req EXCEPT ![t] = Answered(req[t], 404)]
  /\ UNCHANGED <<board, wrote, since>>

\* The statuses a game has had since a request's last write, or since its
\* first read when it writes nothing; and whether it was reset since.
Noted(g, b, ts) ==
  since' = [t \in Threads |->
    IF t \in ts THEN {Status(b)}
    ELSE IF since[t] # {} /\ req[t].at = "serving" /\ Prefix(req[t].view.game) = g
         THEN since[t] \cup {Status(b)} \cup (IF b = Empty THEN {Reset} ELSE {})
         ELSE since[t]]

\* `fill`: when every marker of the view has been asked, they are spliced, and
\* the first failure kept among them is raised.
Spliced(r) ==
  IF r.todo # <<>> THEN r
  ELSE IF r.kept = "none" THEN Answered(r, 200) ELSE Raised(r, r.kept)

\* A step that read `value`: what it shows, and what follows it.
Went(r, step, value) ==
  LET shown == Shows(step, value)
  IN  Spliced([r EXCEPT !.todo = FollowUp(step, value) \o Tail(@),
                        !.shown = [p \in DOMAIN @ \cup DOMAIN shown |->
                                     IF p \in DOMAIN shown THEN shown[p] ELSE @[p]]])

\* The squares of a board are the markers of one level: `answer` keeps the
\* failure of one and the others are still asked.  Any other step is the only
\* request of its level, and its failure is raised at once.
Failed(r, step, error) ==
  IF step.what \in {"square", "empty", "taken"}
  THEN Spliced([r EXCEPT !.todo = Tail(@), !.kept = IF @ = "none" THEN error ELSE @])
  ELSE Raised(r, error)

\* One read of the host.
Read(t) ==
  LET r == req[t]
      g == Prefix(r.view.game)
      step == Head(r.todo)
  IN  /\ r.at = "serving"
      /\ step.what # "sink"
      /\ \/ /\ ~Known(r.view.game)
            /\ req' = [req EXCEPT ![t] = Raised(r, "Unresolved")]
            /\ UNCHANGED since
         \/ /\ Known(r.view.game)
            /\ step.what = "spelling" /\ step.cell \notin Cells
            /\ req' = [req EXCEPT ![t] = Raised(r, "InvalidArgument")]
            /\ UNCHANGED since
         \/ /\ Known(r.view.game)
            /\ step.what = "spelling" => step.cell \in Cells
            /\ req' = [req EXCEPT ![t] = Went(r, step, Answer(step, board[g]))]
            /\ since' = [since EXCEPT ![t] = IF @ = {} THEN {Status(board[g])} ELSE @]
         \/ \E f \in Failures :
              /\ Known(r.view.game)
              /\ req' = [req EXCEPT ![t] = Failed(r, step, f)]
              /\ UNCHANGED since
      /\ UNCHANGED <<board, wrote>>

\* The host carries out a request's write.
Carried(t) ==
  LET view == req[t].view
      g == Prefix(view.game)
  IN  /\ board' = [board EXCEPT ![g] = Written(@, view)]
      /\ wrote' = [wrote EXCEPT ![t] = Append(@, <<g, view.kind, view.cell>>)]
      /\ Noted(g, Written(board[g], view), {t})

\* `reply`: the Sink.  A Conflict goes up; any other refusal is what the reply
\* says.  A host whose store failed it may have stored the mark or not.
Sink(t) ==
  LET r == req[t]
      g == Prefix(r.view.game)
      Said(word) == req' = [req EXCEPT ![t] = Went([r EXCEPT !.said = word], Head(r.todo), "text")]
      Allowed == Known(r.view.game) /\ Takes(board[g], r.view)
  IN  /\ r.at = "serving"
      /\ Head(r.todo).what = "sink"
      /\ \/ Allowed /\ Carried(t) /\ Said("ok")
         \/ /\ Known(r.view.game) /\ ~Takes(board[g], r.view)
            /\ req' = [req EXCEPT ![t] = Raised(r, "Conflict")]
            /\ UNCHANGED <<board, wrote, since>>
         \/ /\ ~Known(r.view.game)
            /\ Said("refused")
            /\ UNCHANGED <<board, wrote, since>>
         \/ /\ Failures # {} /\ Allowed
            /\ Said("refused")
            /\ (Carried(t) \/ UNCHANGED <<board, wrote, since>>)

\* The connection to the host is lost, or cannot be made, while a request
\* waits for it; a write that was sent may have been carried out.
Lost(t) ==
  LET r == req[t]
      Sent == r.at = "serving" /\ Head(r.todo).what = "sink" /\ Known(r.view.game)
  IN  /\ r.at \in {"describing", "serving", "failed"}
      /\ req' = [req EXCEPT ![t] = IF r.at = "failed" THEN [r EXCEPT !.at = "dropped"]
                                   ELSE Answered(r, 503)]
      /\ \/ UNCHANGED <<board, wrote, since>>
         \/ Sent /\ Takes(board[Prefix(r.view.game)], r.view) /\ Carried(t)

\* A player at another app moves, or resets the game.
Elsewhere(g) ==
  \E b \in {Empty} \cup {Moved(board[g], c) : c \in {d \in Cells : Legal(board[g], d)}} :
    /\ board' = [board EXCEPT ![g] = b]
    /\ Noted(g, b, {})
    /\ UNCHANGED <<req, wrote>>

Handle(t) == Describe(t) \/ DescribeAgain(t) \/ Read(t) \/ Sink(t) \/ Lost(t)

Next ==
  \/ \E t \in Threads, verb \in Verbs, path \in Paths : Arrive(t, verb, path)
  \/ \E t \in Threads : Handle(t)
  \/ \E g \in DOMAIN board : Elsewhere(g)

Spec == Init /\ [][Next]_vars

\* A round trip ends: with an answer, or with the client's timeout.
FairSpec == Spec /\ \A t \in Threads : WF_vars(Handle(t))

-----------------------------------------------------------------------------
(* Properties *)

\* The answer tells what was written: a request writes at most once, what its
\* path names and only by a method that writes; an answer that says "ok" was
\* written, and one that refuses (every status below 500 but 200) was not,
\* whatever failed after the write or between the checks and it.
AnswerTellsTheWrite ==
  \A t \in Threads :
    LET r == req[t]
    IN  /\ Len(wrote[t]) <= 1
        /\ wrote[t] # <<>> =>
             /\ r.verb \in {"POST", "PUT"}
             /\ wrote[t] = << <<Prefix(r.view.game), r.view.kind, r.view.cell>> >>
             /\ r.at = "answered" => r.code \in {200, 500, 503}
        /\ r.said = "ok" => wrote[t] # <<>>

\* What a view shows is not older than the request's own write, and holds
\* together unless the game is reset while it is composed: with nobody else
\* writing its status is the board's; with others moving it is one the game has
\* had since, or the one torn status, of a game that ended between the reads of
\* its winner and of its turn; and a square shown as taken shows its mark.  A
\* board is shown with all its squares: one that could not be read is never left
\* out of what is answered, whatever was read of the others after it.
ViewIsOfTheGame ==
  \A t \in Threads :
    LET r == req[t]
        shown == {r.shown[p] : p \in DOMAIN r.shown \ {<<"status">>}}
    IN  r.at = "answered" /\ r.code = 200 =>
          /\ r.view.kind = "board" => Cells \subseteq DOMAIN r.shown
          /\ Reset \notin since[t] =>
               /\ "-" \notin shown
               /\ <<"status">> \in DOMAIN r.shown =>
                    \/ r.shown[ <<"status">> ] \in since[t]
                    \/ /\ Cardinality(since[t]) > 1
                       /\ r.shown[ <<"status">> ] = <<"-", "to play">>

\* A request ends, whatever the host's store and the connection do at any of its
\* round trips, also after a failure that was kept while the rest of the board
\* is asked for; and it ends unanswered only if it is for a game the host lacks,
\* and so looked into a second time, where a lost connection is caught by nothing.
EveryRequestEnds ==
  \A t \in Threads :
    req[t].at # "new" ~> \/ req[t].at = "answered"
                         \/ req[t].at = "dropped" /\ ~Known(req[t].view.game)

=============================================================================
