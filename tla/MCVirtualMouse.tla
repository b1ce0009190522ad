--------------------------- MODULE MCVirtualMouse ---------------------------
(* Instances of VirtualMouse for TLC.                                      *)
EXTENDS VirtualMouse

\* At rest, one button, the other with a scroll, and the thumb stick deflected: to the
\* end with a button down, and without one to 7, next to the centre.
SmallReports ==
    {Rest, [Rest EXCEPT !.buttons = {"primary"}],
     [Rest EXCEPT !.buttons = {"secondary", "scroll"}],
     [Rest EXCEPT !.thumb = 7], [thumb |-> 15, buttons |-> {"primary"}]}

\* Two threads enable the mouse, only one report comes.
FewReports == {Rest}
=============================================================================
