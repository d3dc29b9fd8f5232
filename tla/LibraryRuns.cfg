SPECIFICATION Spec
CONSTANT
  Parts = {"tree", "list", "heap", "sort", "splay", "pieces", "rope", "view", "string",
           "builder", "format", "lexer", "parser", "math", "argv"}
INVARIANTS
  OrderIsKept
  TextsAreExact
  PrintsWhatIsAsked
  ReadsInput
  TransformsCompose
CHECK_DEADLOCK FALSE
