SPECIFICATION ScoreSpec
CONSTANT
    Posts <- HintedPosts
INVARIANT
    ModelAddsAtMostCap
