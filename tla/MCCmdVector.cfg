\* Every command line of up to five characters, and of six without "cr".
SPECIFICATION Spec
CONSTANTS
    Lines <- EveryLine
INVARIANTS
    TypeOK
    SplitsAsReference
    VectorHoldsElements
    JavaSeesSameWords
    OptionsSplitAlike
