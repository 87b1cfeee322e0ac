SPECIFICATION Spec
CONSTANTS
  Parts = {"range"}
  MaxNumber = 2
  MaxLevel = 3
  Extras = {1, 2}
  Letters = 2
  Queries <- MCQueries
  LastEnd = 2
  this = this that = that other = other
  RangeNames = {this, that}
  OldMaxNumber = 2
  OldEnds <- MCOldEnds
  OldQueries <- MCOldQueries
  OldNames = {this, that}
  OldCalls <- MCOldCalls
  MaxCalls <- MCMaxCalls
  x = x y = y
  blank = blank
  Words = {x, y}
  Blank = blank
  MaxScript = 3
  Damages = {"nothing", "text", "short", "old", "new", "count", "lost", "git", "stray"}
  CallMarks <- MCCallMarks
  Bytes = {0, 1}
  MaxBytes = 2
  Sizes = {0, 1, 2, 3}
  MaxRecords = 3
  MaxOpens = 2
  MaxText = 1
  Octets = {59}
  MaxOctets = 1
  PartSymbols <- MCPartSymbols
  MaxPart = 1
  MaxParts = 1
  FileTexts = {"7", "word"}
  NotNumbers = {"word"}
  InitText = "5"
  AssignedText = "9"
  SettingCalls = 5
  TextKeys = {"k", "l"}
  MaxLines = 1
  Getters = {this, that}
  FileKeys <- MCFileKeys
  GetterCalls <- MCGetterCalls
  Kinds = {"empty", "git", "hg", "bzr", "fossil", "cvs", "svn", "remote", "files"}
  SourceCalls = 4
  Originals <- MCOriginals
  Resaved <- MCResaved
  CachePrograms = {this, that}
  CacheCalls <- MCCacheCalls
  Updaters = {this, that, other}
  Histories <- MCHistories
  ReleaseOf <- MCReleaseOf
  UpdateCalls <- MCUpdateCalls
  Programs <- MCPrograms
  Declared <- MCDeclared
  NewNames = {"n", "v", "w"}
  OwnSubs = {"s"}
  RegistryCalls = 6
  WordSymbols <- MCWordSymbols
  MaxWord = 2
  MaxWords = 2
  FileSystems <- MCFileSystems
  ArgumentLists <- MCArgumentLists
  RspLimit = 2
CHECK_DEADLOCK FALSE
INVARIANT AlwaysSorted
