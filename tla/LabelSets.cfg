\* All label sets over four labels.
SPECIFICATION Spec
CONSTANTS
    Labels = {1, 2, 3, 4}
    Operands <- MCOperands
INVARIANTS TypeOK UnionCorrect MinusCorrect ChecksCorrect NewNonempty
PROPERTIES LoopsEnd
