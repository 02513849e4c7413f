CONSTANTS
    Svc = {s1, s2}
    NoSvc = NoSvc
    Dir = {d1, d2}
    url = url
    host = host
    postgres = postgres
    mysql = mysql
    Key = {url, host}
    Engine = {postgres, mysql}
    NoEngine = NoEngine
    Alias <- MCAlias
    MaxOp = 2
    MaxEdit = 3
SPECIFICATION Spec
CHECK_DEADLOCK FALSE
SYMMETRY Symmetry
INVARIANTS
    ReleasedServicesExist
    EntryPointServed
    PortOfItsDirectory
PROPERTIES
    EditsKeepOwnership
    DatabaseKept
