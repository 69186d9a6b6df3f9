\* Two tool calls on one message while the user deletes a label, which may be
\* made anew.  A label may be in both lists of a filter: its two ids are then
\* resolved before and after the deletion.
SPECIFICATION Spec
CONSTANTS
  UserLabels = {work}
  Requests = {q1, q2}
  MaxGens = 2
SYMMETRY Symmetry
CHECK_DEADLOCK FALSE
PROPERTIES
  AnswersAreTrue
  FilterIsWhatWasAsked
