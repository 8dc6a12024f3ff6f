\* Three messages of any kind, in the root, which is a plain directory, and in a repository.
SPECIFICATION Spec
CONSTANTS
    root = root
    repo = repo
    Dirs <- Directories
    Root <- root
    GitDirs <- Repositories
    MaxMessages = 3
    MaxBotTurns = 2
    LogLength = 3
    ShownLines = 2
INVARIANTS TypeOK DroppedStaysDropped NoStandstill
PROPERTIES TurnsKept NotesKept StepsRunOut ImplementsSessionLog
