SPECIFICATION Spec
CONSTANTS
    None = None
    a = a
    b = b
    x = x
    y = y
    Items = {x, y}
    Order <- Ascending
    Sets = {a, b}
    Readers = {r, q}
    Writers = {w, v}
    Owner = o
    Pairs <- InOrder
INVARIANTS TypeOK BinaryExact MixedRegular NobodyStuck
