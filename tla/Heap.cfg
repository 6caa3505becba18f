\* A queue of five slots shared by six tasks on three levels.
SPECIFICATION Spec
CONSTANTS
  Nil = Nil
  Tasks = {t1, t2, t3, t4, t5, t6}
  QueueSlots = 5
  HeapOrdered = FALSE
  Keys = {1, 2, 3}
SYMMETRY TaskSymmetry
INVARIANTS StoreOK ShortQueueInOrder
PROPERTY QueueSpec
