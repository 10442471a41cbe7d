SPECIFICATION Spec
CONSTANTS
    c1 = c1  c2 = c2
    Contents = {c1, c2}
    MaxNumber = 3
    Retain = 1
INVARIANTS
    TypeOK
    MemoMatchesRows
    
    
    NewestSurvives
PROPERTIES
    NeverRollsBack
    
