CONSTANTS
    Codes = {c1, c2, c3, c4}
    Importers = {i1}
    Editors = {e1}
    MaxRows = 2
    MaxRequests = 2
    NoParent = NoParent
    Undefined = Undefined
    Suppliers = {s1, s2}
    Quantities = {1, 2}
    Buyers = {b1, b2}
    MaxArrivals = 4
    Absent = Absent
SYMMETRY Symmetric
SPECIFICATION MastersSpec
INVARIANTS
    ExportComesBack
    DecidedAsSubmitted
    SuppliersAreConsistent
PROPERTIES
    ImportsKeepTheirTrees
CHECK_DEADLOCK FALSE
