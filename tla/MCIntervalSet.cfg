CONSTANT MaxPoint = 7
SPECIFICATION Spec
INVARIANT NormalForm
PROPERTY ImplementsPointSet
