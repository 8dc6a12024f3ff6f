\* A chat in a repository where a job runs in its worktree.
SPECIFICATION Spec
CONSTANTS
    root = root
    repo = repo
    Dirs <- Directories
    Root <- root
    GitDirs <- Repositories
    MaxMessages = 2
    MaxBotTurns = 2
    LogLength = 3
    ShownLines = 2
INVARIANTS NotStalledByJob
