CONSTANTS
    s1 = s1 s2 = s2 a1 = a1
    Sources = {s1, s2}
    Actions = {a1}
    OwnerOf <- OneOwner
SPECIFICATION Spec
INVARIANT TypeOK
INVARIANT ScriptsDefineTheirFunction
PROPERTY UpdatesStayInForm
PROPERTY ImplementsCatalog
CHECK_DEADLOCK FALSE
