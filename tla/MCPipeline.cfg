CONSTANTS
  Producers = {p1, p2, p3}
  Consumers = {c1, c2}
  Resources = {r1, r2}
  NoResource = NoResource
  Depth = 2
  MaxInflight = 4
SPECIFICATION Spec
SYMMETRY Symmetry
INVARIANTS TypeOK SlotsConserved FrontIsDefined
PROPERTY ImplementsBoundedQueue
