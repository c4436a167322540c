SPECIFICATION Spec
INVARIANTS DppAgree TlsAgree EapAgree SaeAgree
CHECK_DEADLOCK FALSE
