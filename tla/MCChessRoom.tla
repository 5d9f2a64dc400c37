----------------------------- MODULE MCChessRoom -----------------------------
(* A room that two players have entered, with seconds of two ticks and     *)
(* clocks of a second or two.                                              *)
EXTENDS ChessRoom, TLC

CONSTANTS alice, bob

Seated ==
    [NewRoom EXCEPT !.seats = (White :> alice @@ Black :> bob), !.phase = "Ready",
                    !.revision = 2]

SeatedInit ==
    /\ mode \in Modes
    /\ room = Seated /\ row = Seated
    /\ tasks = {} /\ saves = {}
    /\ live = TRUE
    /\ restarts = 0 /\ wins = 0 /\ unsaved = FALSE /\ rewound = FALSE

SeatedSpec == SeatedInit /\ [][Next]_vars /\ Fairness
===============================================================================
