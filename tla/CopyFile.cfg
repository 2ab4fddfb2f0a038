SPECIFICATION Spec
CONSTANTS
    QD = 2
    BS = 2
    FileSize = 5
INVARIANTS
    Accounting
    CopiesExactly
 
