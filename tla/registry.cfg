SPECIFICATION Spec
SYMMETRY Symmetry
CONSTANTS
  u1 = u1
  u2 = u2
  f1 = f1
  f2 = f2
  Fields = {f1, f2}
  Suggestions = {"udm"}
  NoSuggestion = ""
  Heuristic <- MCHeuristic
  ModelFieldOf <- MCModelFieldOf
  Known = {"known"}
  Reviews = {"new", "approved", "promoted", "ignored"}
  Requests = {"r1"}
  Updaters = {u1, u2}
  MaxDecisions = 2
  MaxRuns = 2
  MaxFaults = 1
INVARIANTS
  TypeOK
  DecisionsStand
  PromotedMeansOffered
  ProposedOnce
