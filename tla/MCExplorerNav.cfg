\* Folders, pages, orders, searches and page sizes, with the history of the
\* browser and the bucket left and opened again.
SPECIFICATION ScenesSpec
CONSTANTS
    Folders <- MCFolders
    Searches = {"", "s"}
    Limits = {1, 2}
    Sorts = {"asc", "desc"}
    DefaultSort = "desc"
    EntriesOf <- MCEntriesOf
    DefaultLimit = 2
    BrowserHistory = TRUE
    Reopens = TRUE
    Keyboard = FALSE
    Depth = 4
    Requests = 2
INVARIANTS NavSound PageTrail OwnCursor
PROPERTY TrailSpec
