\* The one-argument command line, with a misspelt directionality among
\* the values it may carry.
CONSTANTS
    MaxIterations <- MCMaxIterations
    CLIDirs <- MCCLIDirs
    GeneratorMode = FALSE
SPECIFICATION FairSpec
INVARIANT MalformedRejectedBeforeLoop
