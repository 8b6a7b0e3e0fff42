------------------------------ MODULE MCAppCds ------------------------------
(* Values of AppCds's constants for TLC. *)
EXTENDS AppCds, TLC

\* Options that meet in one run: the archive is asked for and refused, deleted,
\* or only reported about.
OptionSets == { {}, {"cache"}, {"cache", "nocache"}, {"rmcache"},
                {"cache", "environment"} }
Overrides  == { {}, {"JRUBY_JSA"} }
Plain      == { {} }

Symmetry == Permutations(Procs)
=============================================================================
