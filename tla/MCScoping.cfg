CONSTANT Loadable <- Capturing
SPECIFICATION Spec
INVARIANT LexicalCapture
