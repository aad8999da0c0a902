CONSTANTS
    FileNames = {f}
    DirNames = {rt, a}
    Root = rt
    MaxFiles = 4
    MaxDirs = 4
    MAX_DIR_FILE_NUM = 2
    Fids = 2
    DirFids = 4
    MaxListed = 3
    f = f
    rt = rt
    a = a
SPECIFICATION Spec
INVARIANTS TypeOK PathDepths ListedByParent NamesApart
