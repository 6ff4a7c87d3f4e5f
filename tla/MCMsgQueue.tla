----------------------------- MODULE MCMsgQueue -----------------------------
(* Small sets of messages for TLC; each configuration picks from them.     *)
EXTENDS MsgQueue, TLC

CONSTANTS w1, w2

MCSymmetry == Permutations(Threads \ Quitters)
MCNone   == {}
MCMsg(k, w, p, l) == [message |-> k, hwnd |-> w, wParam |-> p, lParam |-> l]
MCUser   == {MCMsg("MSG_USER", w1, 0, 0)}
MCSync   == {MCMsg("MSG_SYNC", w1, 0, 0)}
MCSync2  == {MCMsg("MSG_SYNC", w, 0, 0) : w \in {w1, w2}}
MCNotify == {MCMsg("MSG_NOTIFY", w1, 0, 0)}
MCMoves  == {MCMsg("MSG_MOUSEMOVE", w1, 0, 0), MCMsg("MSG_MOUSEMOVE", w1, 0, 1),
             MCMsg("MSG_MOUSEMOVE", w1, 1, 0), MCMsg("MSG_TIMEOUT", w1, 0, 0)}
MCTimeouts == {{"MSG_TIMEOUT"}}
MCTimerWnd == [s \in 0 .. NrTimers - 1 |-> w1]
MCPaints == {{"MSG_PAINT"}}
=============================================================================
