\* Two requests at a time, two shipments, two orders, two tracking codes, manifests of two keys.
SPECIFICATION Spec
CONSTANTS
    category = category
    note = note
    v = v
    Shipment = {s1, s2}
    Order = {o1, o2}
    Code = {c1, c2}
    Field = {category, note}
    Value = {v}
    Detail <- Details
    Photo = {p}
    None = None
    NoRow = NoRow
    Contended = Contended
    Handler = {h1, h2}
SYMMETRY ShipmentSymmetry
INVARIANTS
    DeliveredWithProof
    CalmIsSequential
    LabelNamesShipment
