\* Every parameter set, as the one-argument command line accepts them.
CONSTANTS
    MaxIterations <- MCMaxIterations
    CLIDirs <- MCCLIDirs
    GeneratorMode = FALSE
SPECIFICATION FairSpec
INVARIANT PrunedScenarioFails
