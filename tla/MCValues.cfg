SPECIFICATION Spec
CONSTANTS
  Parts = {"version", "syntax", "range", "old_syntax", "old_range", "patch", "emitter", "stream", "mmap", "csv", "base", "path", "entry", "text", "settings", "description", "cache", "tables", "arguments", "registry", "response"}
  MaxNumber = 2
  MaxLevel = 3
  Extras = {1, 2}
  Letters = 2
  Queries <- MCQueries
  LastEnd = 2
  this = this that = that other = other
  RangeNames = {this, that}
  OldMaxNumber = 2
  OldEnds <- MCOldEnds
  OldQueries <- MCOldQueries
  OldNames = {this, that}
  OldCalls <- MCOldCalls
  MaxCalls <- MCMaxCalls
  x = x y = y
  blank = blank
  Words = {x, y}
  Blank = blank
  MaxScript = 3
  Damages = {"nothing", "text", "short", "old", "new", "count", "lost", "git", "stray"}
  CallMarks <- MCCallMarks
  Bytes = {0, 1}
  MaxBytes = 2
  Sizes = {0, 1, 2, 3}
  MaxRecords = 3
  MaxOpens = 2
  MaxText = 5
  Octets = {59, 150, 255}
  MaxOctets = 6
  PartSymbols <- MCPartSymbols
  MaxPart = 2
  MaxParts = 2
  FileTexts = {"7", "word"}
  NotNumbers = {"word"}
  InitText = "5"
  AssignedText = "9"
  SettingCalls = 5
  TextKeys = {"k", "l"}
  MaxLines = 4
  Getters = {this, that}
  FileKeys <- MCFileKeys
  GetterCalls <- MCGetterCalls
  Kinds = {"empty", "git", "hg", "bzr", "fossil", "cvs", "svn", "remote", "files"}
  SourceCalls = 4
  Originals <- MCOriginals
  Resaved <- MCResaved
  CachePrograms = {this, that}
  CacheCalls <- MCCacheCalls
  Updaters = {this, that, other}
  Histories <- MCHistories
  ReleaseOf <- MCReleaseOf
  UpdateCalls <- MCUpdateCalls
  Programs <- MCPrograms
  Declared <- MCDeclared
  NewNames = {"n", "v", "w"}
  OwnSubs = {"s"}
  RegistryCalls = 6
  WordSymbols <- MCWordSymbols
  MaxWord = 2
  MaxWords = 2
  FileSystems <- MCFileSystems
  ArgumentLists <- MCArgumentLists
  RspLimit = 2
CHECK_DEADLOCK FALSE
INVARIANT VersionsRight
INVARIANT TextsRight
INVARIANT WrittenIsRead
INVARIANT ArgumentsRight
INVARIANT SharedIsKept
PROPERTY StepsAreAdjacent
