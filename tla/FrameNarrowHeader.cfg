SPECIFICATION Spec
CONSTANTS
    HeaderTypes = {1, 2}
    Gids = {0, 1, 3, 4, 7, 8, 255}
    Sids = {0, 1, 3, 4, 7, 8, 31, 32, 255}
    Bytes = {0, 5, 36, 164, 255}
    DataLens = {0, 12, 13, 14, 15, 49, 50, 51, 52, 61, 62, 63, 64, 65}
INVARIANT
    UnderstoodAsSent
