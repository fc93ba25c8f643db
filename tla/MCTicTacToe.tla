------------------------------ MODULE MCTicTacToe ------------------------------
(* Instances of TicTacToe for TLC. *)
EXTENDS TicTacToe

ThePaths ==
  { <<>>, <<"game", "a">>, <<"game", ":">>, <<"static", "ttt.css">>, <<"%">>, <<"no">>, <<"game", "<">>,
    GAME \o <<"view", "status">>,
    <<"game", "root">> \o GAME \o <<"view", "board">>,
    <<"game", "ghost">> \o GAME \o <<"view", "status">>,
    <<"game", "ghost">> \o GAME \o <<"view", "reset">>,
    <<"game", "a">> \o GAME \o <<"view", "play", "1", "1">>,
    <<"game", "a">> \o GAME \o <<"view", "play", "01", "1">>,
    <<"game", "a">> \o GAME \o <<"view", "reset">>,
    <<"game", "a">> \o GAME \o <<"view", "", "status">> }
TheCells == {<<"1", "1">>, <<"2", "1">>, <<"3", "1">>}
TheRows == {{<<"1", "1">>, <<"2", "1">>}, {<<"2", "1">>, <<"3", "1">>}}
=============================================================================
