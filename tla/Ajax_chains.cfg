SPECIFICATION Spec
CONSTANTS
  r1 = r1  r2 = r2  dom = dom  p1 = p1
  success = success  error = error  always = always  hook = hook
  c1 = c1  script = script
  Deferreds = {r1, r2, dom, p1}
  Promises = {p1}
  Requests = {r1, r2}
  Dom = dom
  Cbs = {success, error, always, hook, c1, script}
  Nothing = Nothing
  Success <- SuccessOf  Error <- ErrorOf  Complete <- CompleteOf  BeforeSend <- BeforeSendOf
  Timed = {r1}
  Scripts = {script}
CHECK_DEADLOCK FALSE
INVARIANTS TypeOK CallbacksInOrder OutcomesArePassedOn ActiveCounts
PROPERTIES ChainsSettle CompleteIsLast
