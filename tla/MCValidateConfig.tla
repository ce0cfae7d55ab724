---- MODULE MCValidateConfig ----
EXTENDS ValidateConfig
EntryOf(v, name, chefV2) == [vault |-> v, name |-> name, partial |-> TRUE, chefV2 |-> chefV2]
WithoutPartial(v, name) == [vault |-> v, name |-> name, partial |-> FALSE, chefV2 |-> FALSE]
SomeUnknown == <<EntryOf(1, "PancakeswapWorker", TRUE), EntryOf(1, "DeltaNeutralPancakeswapWorker", TRUE),
                 EntryOf(1, "MyWorker", FALSE), EntryOf(1, "BETH-ETH PancakeswapWorker", FALSE),
                 EntryOf(2, "BiswapWorker", FALSE), WithoutPartial(2, "BiswapWorker")>>
SomeDiffer == <<{"stakingTokenAt"}, {"Liquidate", "AddTwoSidesOptimal"}, {}, {}, {"pid"}, {}>>
PancakeWorkers == <<EntryOf(1, "PancakeswapWorker", TRUE), EntryOf(1, "CakeMaxiWorker", FALSE)>>
PancakesDiffer == <<{"Liquidate", "stakingTokenAt"}, {"fee"}>>
====
