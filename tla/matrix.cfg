SPECIFICATION Spec
CONSTANTS
    A = A
    B = B
    Names = {A, B}
    Elements = {0, 1}
    Zero = 0
    NoName = NoName
    a1 = a1
    a2 = a2
    a3 = a3
    Arrays = {a1, a2, a3}
    NoArray = NoArray
    Shapes <- TheShapes
    MaxSize = 2
    MaxLeaked = 0
SYMMETRY Renamings
INVARIANTS
    ReferencesAreCounted
    EditedIndexInBounds
PROPERTIES
    CopiesAreIndependent
    MatrixComesBack
