SPECIFICATION Spec
CONSTANTS
    f1 = f1
    f2 = f2
    x1 = x1
    x2 = x2
    a = a
    b = b
    c0 = c0
    c1 = c1
    h1 = h1
    h2 = h2
    File = {f1, f2}
    Content = {x1, x2}
    Name = {"bitbake", "oe-core"}
    Revision = {a, b}
    Machine = {"qemux86-64", "qemuarm64"}
    Host = {h1, h2}
    Identity = {c0, c1}
    NoFile = NoFile
    NotJson = NotJson
    NotObject = NotObject
    Revisions <- MCRevisions
    Manifest0 <- MCManifest0
    Disk0 <- MCDisk0
    MaxEdits = 1
INVARIANT
    ParsedIsReported
