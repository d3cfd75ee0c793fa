\* The scenarios generate_scenarios runs: prune_invalid_params applied.
CONSTANTS
    MaxIterations <- MCMaxIterations
    CLIDirs <- MCCLIDirs
    GeneratorMode = TRUE
SPECIFICATION FairSpec
INVARIANT FinalC2LWithoutOOBFails
