SPECIFICATION Spec
CONSTANTS
  Nil = Nil
  Words <- MCWords
  Fold <- MCFold
  Namespaces <- MCNamespaces
  Names <- MCNames
  Policies <- MCPolicies
  Proposals <- MCProposals
PROPERTY TighteningNeverAllows
