\* Two editors of one rule: does a PUT leave alone what it does not bring?
SPECIFICATION Spec
CONSTANTS
    e1 = e1
    e2 = e2
    Editors = {e1, e2}
    OldConditions = {1, 2}
    NewConditions <- TwoEditors
    Unused = Unused
    Deleted = Deleted
CHECK_DEADLOCK FALSE
PROPERTY PartialUpdate
