SPECIFICATION CoreSpec
CONSTANTS
  Coins = {c1, c2}
  MaxTx = 3
  MaxFee = 2
  Offers <- MCOffers
  LotDiv = 2
  Word = 18
  Horizon = 1
  Purse = 6
  MaxHeight = 2
  Signers = {p1, p2}
  NoRecord = NoRecord
  HintCap = 1
  MaxRecords = 2
  MaxMisses = 1
  MaxLegTip = 6
  MinDepth = 2
  SeqLock = 4
  BtcLock = 5
  Outputs <- MCOutputs
  Target = "T"
  Excluded = {"E"}
  Maturity = 1
  OwnDepth = 0
  MinReceive = 1
  MaxOffer = 2
  LedgerCap = 2
  Runners = {u1, u2}
  RwMaxTip = 1
  MaxPasses = 2
  Assets = {"u", "v"}
  AssetIndex <- MCAssetIndex
  MaxAsks = 2
  MaxLinks = 2
  MaxVal = 1
  Accounts = {a1, a2}
  MaxSends = 1
  MaxTags = 1
  Wallet <- MCWallet
  MaxDenom = 1
  MaxCoordFee = 1
  MaxCredentials = 2
  MaxIndex = 4
INVARIANTS
  CoreTypeOK
  PaidOnce
  NoDust
  MakerPaid
  PlannedFillPasses
  ReclaimKept
  
  TakerWhole
  SoldOnce
  LinkFaithful
  WireFaithful
  OnlyReviewed
  CostsTheFee

  
CONSTRAINT Followed
CHECK_DEADLOCK FALSE
