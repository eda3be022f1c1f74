SPECIFICATION Spec
CONSTANTS
  None = None
  Handlers = {h1, h2}
  Products = {p1}
  Tenant = n1
  Files = {f1, f2}
  Kinds = {"add", "thumbnail", "replace", "remove", "choose", "edit", "status", "logo"}
SYMMETRY Symmetry
INVARIANTS TypeOK RowsNameStoredFiles NoStrayFiles
PROPERTIES OnlyRemovedOnPurpose
