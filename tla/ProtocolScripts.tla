---------------------------- MODULE ProtocolScripts ----------------------------
(***************************************************************************)
(* deploy/exec around the vaults: token and rewards, oracles, treasury,    *)
(* automated vault controller and creditors, NFT staking, timelock and     *)
(* ownership, the exchanges of the test nets, and the worker scripts of    *)
(* __deprecated__.  The test net scripts do nothing on another network.    *)
(***************************************************************************)
EXTENDS ScriptSteps

\* hardhat-deploy's deploy, which sends nothing when the same code is there already.
DeployOnce(contract) == Prepare(contract)
Only(call) == Send(call, "a")

\* The token is handed over before FairLaunch has its bonus.
DeployFairLaunch ==
  DeployOnce("AlpacaToken") \o DeployOnce("FairLaunch") \o Only("transferOwnership") \o Only("setBonus")
DeployShield == Deploy("Shield", "a") \o Only("queue transferOwnership")
DeployStronkAlpaca == Deploy("StronkAlpaca", "a")
DeployRewarder1 == Deploy("Rewarder1", "a")
DeployProxyToken == Deploy("ProxyToken", "a")
DeployEmissionForwarder ==
  Deploy("EmissionForwarder", "a") \o Count \o SendNextWait("setOkHolders", "a")
  \o SendNextWait("transferOwnership", "a") \o SendNextWait("fairLaunchDeposit", "a")

\* Every campaign is queued; the file of the same name holds those of this run only.
GrazingRangeAddCampaignInfo == ForEach(LAMBDA x : Queue("addCampaignInfo", x)) \o WriteTitled
GrazingRangeAddRewardInfo == ForEach(LAMBDA x : Queue("addRewardInfo", x)) \o WriteTitled
DeployGrazingRange == Deploy("GrazingRange", "a")
UpgradeGrazingRange == Prepare("a") \o Only("queue upgrade")

DeployMerkleDistributor == Deploy("MerkleDistributor", "a")
\* The distributor's token is checked, then the approval is awaited before the deposit.
MerkleDeposit == Lookup("FEATURE_TOKEN") \o SendWait("approve", "a") \o SendWait("deposit", "a")

\* oracles: the BinancePriceOracle is not waited for.
DeployBinanceOracle == Only("BinancePriceOracle")
DeployChainLinkOracle == Deploy("ChainLinkPriceOracle", "a")
DeployChainLinkOracle2 == Deploy("ChainLinkPriceOracle2", "a")
DeployOracleMedianizer == Deploy("OracleMedianizer", "a")
DeploySimplePriceOracle == Deploy("SimplePriceOracle", "a")
AddChainLinkSource == Lookup("TOKEN0") \o Lookup("TOKEN1") \o Only("setPriceFeeds")
AddChainLinkSource2 == Lookup("TOKEN0") \o Lookup("TOKEN1") \o SendWait("setPriceFeeds", "a")
AddMedianizerSource == Lookup("TOKEN0") \o Lookup("TOKEN1") \o Only("setMultiPrimarySources")

\* revenue-treasury, treasury-buyback-strategy, aip15
DeployRevenueTreasury == Deploy("RevenueTreasury", "a")
FeedGrassHouse == Only("feedGrassHouse")
SetCallersOk == Only("setCallersOk")
SetRevenueDistributor == Only("setRevenueDistributor")
SetRewardTime == Only("setRewardTime")
SetToken == Only("setToken")
SetTreasuryBuybackStrategy == Only("setTreasuryBuyBackStrategy")
\* The number of the first nonce is written in the script; upgradeProxy prepares once more.
UpgradeRevenueTreasury ==
  Fixed \o Lookup("RevenueTreasury")
  \o ByOwner("ProxyAdmin", Prepare("a") \o QueueNext("upgrade", "a"), Prepare("a") \o Only("upgrade"))
  \o ByOwner("ProxyAdmin", WriteStamped, <<>>)
DeployTreasuryBuyback == Deploy("TreasuryBuybackStrategy", "a")
DeployAip15 == Deploy("Aip15", "a")

\* ausd, creditor, av-controller, av-migration
DeployAUSDStaking == Lookup("FairLaunch") \o Deploy("AIP8AUSDStaking", "a") \o Save("AIP8AUSDStaking", "a")
SetEmergencyWithdraw == Lookup("AUSDStaking") \o Only("enableEmergencyWithdraw")
UpgradeAUSDStaking == Prepare("a") \o Queue("upgrade", "a") \o WriteStamped
DeployAUSDStakingCreditor ==
  Lookup("AUSDStaking") \o Deploy("AUSDStakingCreditor", "a") \o Save("AUSDStakingCreditor", "a")
DeployXAlpacaCreditor == Deploy("xAlpacaCreditor", "a") \o Save("xAlpacaCreditor", "a")
AUSDStakingCreditorSetParam == Lookup("SETTER") \o Count \o SendNext("setValueSetter", "a")
XAlpacaCreditorSetParam == Lookup("SETTER") \o Count \o SendNext("setValueSetter", "a")
DeployAVController == Deploy("AutomatedVaultController", "a") \o Save("AutomatedVaultController", "a")
\* The file names the creditors as soon as the call that sets them is sent.
AVControllerSetParams ==
  Lookup("AutomatedVaultController") \o Count
  \o SendNext("setCreditors", "a") \o Save("Creditors", "a") \o SendNext("addPrivateVaults", "a")
AVControllerDisableCredit == Lookup("AutomatedVaultController") \o Only("setIsDisabled")
UpgradeAVController == Prepare("a") \o Queue("upgrade", "a") \o WriteStamped
DeployAVMigration == Deploy("AVMigration", "a") \o Save("AVMigration", "a")
AVMigrationSetParams == Lookup("migrator") \o Count \o SendNext("setMigrationPaths", "a")

\* nft-staking, nft-boosted-leverage-controller
DeployNFTStaking == Deploy("NFTStaking", "a") \o Save("NFTStaking", "a")
NFTStakingAddPool == Lookup("NFTStaking") \o ForEach(LAMBDA x : Send("addPool", x))
DeployNFTBoosted ==
  Lookup("NFTStaking") \o Deploy("NFTBoostedLeverageController", "a") \o Save("NFTBoostedLeverageController", "a")
\* Every worker is found before the one call for all of them.
NFTSetBoosted ==
  ForEach(LAMBDA x : Lookup("worker")) \o Lookup("NFTBoostedLeverageController") \o Only("setBoosted")

\* timelock, ownable, interest models, wrapped tokens
DeployTimelock == Only("Timelock")
TransferOwnership == Count \o ForEach(LAMBDA x : SendNext("transferOwnership", x))
DeployTripleSlopeModel == Only("TripleSlopeModel")
DeployTwoSlopeModel == Deploy("TwoSlopeModel", "a")
DeployWFTM == Deploy("WrappedFtm", "a")

\* exchanges of the test nets.  Of a token, its mint, its pair and the wrapping of the native token
\* each may be there already.
TokenAndLiquidity ==
  ForEach(LAMBDA x :
    Optional(x, Deploy("MockERC20", x) \o SendWait("mint", x) \o SendWait("createPair", x) \o SendWait("wrap", x))
    \o Send("approve base", x) \o Send("approve quote", x)
    \o SendWait("addLiquidity", x) \o SendWait("addPool", x))
TestnetMdex ==
  Deploy("MdexFactory", "a") \o Only("setFeeRateNumerator") \o Only("setFeeTo")
  \o Deploy("MdexRouter", "a") \o Deploy("MdxToken", "a") \o Only("addMinter deployer")
  \o Deploy("Oracle", "a") \o Deploy("BSCPool", "a") \o Deploy("SwapMining", "a")
  \o Only("setSwapMining") \o Only("addMinter SwapMining") \o Only("addMinter BSCPool")
TestnetPancakeMasterChef == DeployOnce("PancakeMasterChef") \o Only("transferOwnership CAKE")
TestnetPancakeswap == DeployOnce("PancakeFactory") \o DeployOnce("WBNB") \o DeployOnce("PancakeRouter")
TestnetPancakeswapV2 == DeployOnce("PancakeFactory") \o DeployOnce("PancakeRouterV2")
TestnetWexMaster == DeployOnce("WexMaster") \o Only("transferMintership") \o Only("transferOwnership")
TestnetWex == DeployOnce("WEX") \o Only("mint")
TestnetWaultSwap == DeployOnce("WaultSwapFactory") \o DeployOnce("WaultSwapRouter")
TestnetSpookySwap ==
  Deploy("SpookyFactory", "a") \o Deploy("SpookyRouter", "a") \o Deploy("SpookyToken", "a")
  \o SendWait("mint", "a") \o Deploy("SpookyMasterChef", "a") \o SendWait("transferOwnership", "a")
TestnetTomb ==
  Deploy("TSHARE", "a") \o SendWait("mint", "a") \o Deploy("TShareRewardPool", "a") \o SendWait("transfer", "a")

\* workers/deploy/__deprecated__ and workers/config/__deprecated__: the node counts every call.
Wire(x) == Send("setReinvestorOk", x) \o Send("setStrategyOk", x)
AdmitAtAll(x) ==
  Send("setWorkersOk ADD", x) \o Send("setWorkersOk LIQ", x)
  \o Send("setWorkersOk TWOSIDES", x) \o Send("setWorkersOk MINIMIZE", x)
QueueBoth(x) == Send("queue setConfigs", x) \o Send("queue setWorkers", x)
OldPancakeswapWorker == Deploy("PancakeswapWorker", "a") \o Only("setReinvestorOk") \o QueueBoth("a")
OldPancakeswapV2Workers ==
  ForEach(LAMBDA x : Lookup("VAULT_SYMBOL"))
  \o ForEach(LAMBDA x : Deploy("PancakeswapV2Worker", x) \o Wire(x) \o AdmitAtAll(x) \o QueueBoth(x))
OldCakeMaxiInfos ==
  ForEach(LAMBDA x : Lookup("VAULT_SYMBOL") \o Lookup("BENEFICIAL_VAULT_SYMBOL")
                     \o Lookup("PATH") \o Lookup("REWARD_PATH"))
OldCakeMaxiWorkers ==
  ForEach(LAMBDA x : Deploy("CakeMaxiWorker", x) \o Wire(x) \o AdmitAtAll(x) \o QueueBoth(x))
OldWaultSwapWorkers ==
  ForEach(LAMBDA x : Lookup("VAULT_SYMBOL"))
  \o ForEach(LAMBDA x : Deploy("WaultSwapWorker", x) \o Wire(x) \o AdmitAtAll(x) \o QueueBoth(x))
OldAddWorkerStrategy == Only("queue setStrategyOk")
OldMigrateLP == ForEach(LAMBDA x : Send("queue migrateLP", x))
OldResetApproval == ForEach(LAMBDA x : Send("queue resetApproval", x) \o Optional(x, Send("queue resetApproval 2", x)))

ProtocolScript == [
  DeployFairLaunch |-> DeployFairLaunch, DeployShield |-> DeployShield,
  DeployStronkAlpaca |-> DeployStronkAlpaca, DeployRewarder1 |-> DeployRewarder1,
  DeployProxyToken |-> DeployProxyToken, DeployEmissionForwarder |-> DeployEmissionForwarder,
  GrazingRangeAddCampaignInfo |-> GrazingRangeAddCampaignInfo,
  GrazingRangeAddRewardInfo |-> GrazingRangeAddRewardInfo,
  DeployGrazingRange |-> DeployGrazingRange, UpgradeGrazingRange |-> UpgradeGrazingRange,
  DeployMerkleDistributor |-> DeployMerkleDistributor, MerkleDeposit |-> MerkleDeposit,
  DeployBinanceOracle |-> DeployBinanceOracle, DeployChainLinkOracle |-> DeployChainLinkOracle,
  DeployChainLinkOracle2 |-> DeployChainLinkOracle2,
  DeployOracleMedianizer |-> DeployOracleMedianizer,
  DeploySimplePriceOracle |-> DeploySimplePriceOracle, AddChainLinkSource |-> AddChainLinkSource,
  AddChainLinkSource2 |-> AddChainLinkSource2, AddMedianizerSource |-> AddMedianizerSource,
  DeployRevenueTreasury |-> DeployRevenueTreasury, FeedGrassHouse |-> FeedGrassHouse,
  SetCallersOk |-> SetCallersOk, SetRevenueDistributor |-> SetRevenueDistributor,
  SetRewardTime |-> SetRewardTime, SetToken |-> SetToken,
  SetTreasuryBuybackStrategy |-> SetTreasuryBuybackStrategy,
  UpgradeRevenueTreasury |-> UpgradeRevenueTreasury,
  DeployTreasuryBuyback |-> DeployTreasuryBuyback, DeployAip15 |-> DeployAip15,
  DeployAUSDStaking |-> DeployAUSDStaking, SetEmergencyWithdraw |-> SetEmergencyWithdraw,
  UpgradeAUSDStaking |-> UpgradeAUSDStaking,
  DeployAUSDStakingCreditor |-> DeployAUSDStakingCreditor,
  DeployXAlpacaCreditor |-> DeployXAlpacaCreditor,
  AUSDStakingCreditorSetParam |-> AUSDStakingCreditorSetParam,
  XAlpacaCreditorSetParam |-> XAlpacaCreditorSetParam, DeployAVController |-> DeployAVController,
  AVControllerSetParams |-> AVControllerSetParams,
  AVControllerDisableCredit |-> AVControllerDisableCredit,
  UpgradeAVController |-> UpgradeAVController, DeployAVMigration |-> DeployAVMigration,
  AVMigrationSetParams |-> AVMigrationSetParams, DeployNFTStaking |-> DeployNFTStaking,
  NFTStakingAddPool |-> NFTStakingAddPool, DeployNFTBoosted |-> DeployNFTBoosted,
  NFTSetBoosted |-> NFTSetBoosted, DeployTimelock |-> DeployTimelock,
  TransferOwnership |-> TransferOwnership, DeployTripleSlopeModel |-> DeployTripleSlopeModel,
  DeployTwoSlopeModel |-> DeployTwoSlopeModel, DeployWFTM |-> DeployWFTM,
  TokenAndLiquidity |-> TokenAndLiquidity, TestnetMdex |-> TestnetMdex,
  TestnetPancakeMasterChef |-> TestnetPancakeMasterChef, TestnetPancakeswap |-> TestnetPancakeswap,
  TestnetPancakeswapV2 |-> TestnetPancakeswapV2, TestnetWexMaster |-> TestnetWexMaster,
  TestnetWex |-> TestnetWex, TestnetWaultSwap |-> TestnetWaultSwap,
  TestnetSpookySwap |-> TestnetSpookySwap, TestnetTomb |-> TestnetTomb,
  OldPancakeswapWorker |-> OldPancakeswapWorker,
  OldPancakeswapV2Workers |-> OldPancakeswapV2Workers,
  OldCakeMaxiWorkers |-> OldCakeMaxiInfos \o OldCakeMaxiWorkers,
  OldWaultSwapWorkers |-> OldWaultSwapWorkers, OldAddWorkerStrategy |-> OldAddWorkerStrategy,
  OldMigrateLP |-> OldMigrateLP, OldResetApproval |-> OldResetApproval]
===============================================================================
