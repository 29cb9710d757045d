---------------------------- MODULE MCEmulation ----------------------------
(***************************************************************************)
(* Rings of three and four packets that are filled more than once, and a   *)
(* small ring together with an update feed.                                *)
(***************************************************************************)
EXTENDS Emulation

Setup(p, s, ways, m) == [packets |-> p, sent |-> s, ways |-> ways, manager |-> m]

Pulls == {"copies", "slices"}

FeedSetup == {Setup(2, 1, Pulls, "dummy")}
AllSetups == FeedSetup \cup
  {Setup(3, 7, Pulls, "none"), Setup(4, 7, Pulls, "none"), Setup(5, 7, {"low"}, "none"),
   Setup(2, 0, {"slices"}, "fib")}

\* Files of two to six updates, with insertions and deletions of the same
\* time, and one that is not in order of time.
AllFiles ==
  { [ins |-> <<1>>, del |-> <<1>>],
    [ins |-> <<1, 3>>, del |-> <<2>>],
    [ins |-> <<2, 3>>, del |-> <<1, 3>>],
    [ins |-> <<1, 2>>, del |-> <<1, 1, 3>>],
    [ins |-> <<1, 2, 3, 4>>, del |-> <<2, 4>>],
    [ins |-> <<3, 1>>, del |-> <<2>>] }

=============================================================================
