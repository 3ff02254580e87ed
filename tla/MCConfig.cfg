SPECIFICATION Spec
CONSTANTS
  name = name
  help = help
  numbered = numbered
  dotted = dotted
  plain = plain
  Names = {name, help}
  UsageNames = {help}
  Numbered = {numbered}
  Dotted = {dotted}
  Plain = plain
  MaxInt = 19
  Calls <- MCCalls
  Files <- MCFiles
INVARIANTS TypeOK OptionsFirst WholeFile OptionsComplete Conversions
\* The constructor has returned or thrown.
CHECK_DEADLOCK FALSE
