SPECIFICATION Spec
PROPERTIES StatusSettles AlertsSettle UpdatesSettle
CHECK_DEADLOCK FALSE
