-------------------------- MODULE MCNailgunSession --------------------------
(* Values of NailgunSession's constants for TLC. *)
EXTENDS NailgunRefinement

Word(opt, b) == [opt |-> opt, text |-> <<b>>]

\* "a" and "b" are arguments, 7 a file name, host or port.
UploadArgvs ==
    { <<>>,
      << Word("none", 1), Word("server", 0), Word("none", 7), Word("none", 2) >>,
      << Word("port", 0), Word("none", 7), Word("showversion", 0), Word("none", 1) >>,
      << Word("none", 1), Word("filearg", 0), Word("none", 7), Word("none", 2) >>,
      << Word("filearg", 0), Word("showversion", 0), Word("none", 1) >>,
      << Word("filearg", 0), Word("filearg", 0), Word("none", 1) >>,
      << Word("none", 1), Word("help", 0) >>,
      << Word("none", 1), Word("filearg", 0) >> }
NoArgs == {<<>>}

FileBytes3 == <<1, 2, 3>>
Empty == <<>>
OneByte == <<5>>
TwoTexts == << <<92>>, <<59>> >>
ThreeTexts == << <<92>>, <<59>>, <<>> >>
EmptyTexts == << <<>>, <<>> >>
DirText == <<9>>

Texts == { <<48>>, <<49, 48>>, <<45, 49>> }      \* "0", "10", "-1"

\* The stdin threads are interchangeable: no operator chooses among them.
Symmetry == Permutations(StdinThreads)
=============================================================================
