SPECIFICATION Spec
CONSTANTS
  Procs = {p1, p2}
  FactoryMeta <- MCFactoryMeta
INVARIANTS
  AlwaysBoots
  ProvenKept
PROPERTIES
  FieldsApart
