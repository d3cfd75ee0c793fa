\* Every parameter set, as the one-argument command line accepts them:
\* every directionality per channel and both client_oob values.
CONSTANTS
    MaxIterations <- MCMaxIterations
    CLIDirs <- MCCLIDirs
    GeneratorMode = FALSE
SPECIFICATION FairSpec
INVARIANT ReadyIffShared CopiesComplementary NoWrongWaySend NoRedundantIsolatedLink FailureIsQuiescent NoDeadLink
PROPERTY EveryLinkLoaded LinksStable Refinement
