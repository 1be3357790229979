\* The three list implementations, three nodes each, and the malloc lab heap.
SPECIFICATION Spec
INVARIANT TypeOK SimWellLinked SelectorWellLinked BackwardMirrorsForward
          HeapWellFormed FreeListMatchesHeap AllocatedIsHeld
PROPERTY RefinesListSpec 
