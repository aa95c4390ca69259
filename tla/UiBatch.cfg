CONSTANTS
  Channel = {"rest", "grpc", "grpc_shared", "mq", "mq_shared", "rest_client", "mq_client"}
  Payload <- MCPayload
  MAX_COUNT = 3
  MAX_CONCURRENCY = 2
SPECIFICATION Spec
INVARIANT TypeOK
INVARIANT BatchAddsUp
INVARIANT ResultsAreRight
INVARIANT RefusedAlike
INVARIANT FailuresAreHonest
PROPERTY BatchIsAnswered
CHECK_DEADLOCK FALSE
