SPECIFICATION Spec
CONSTANTS
  Providers = {"openai", "anthropic", "gemini", "xai", "compat"}
  Responses <- MCResponses
  EnabledTools = {"listed"}
  MaxIterations = 3
  MaxAttempts = 2
INVARIANT TypeOK
INVARIANT StepIsOneResponse
INVARIANT ResponsesAreAccepted
INVARIANT CallsAreAnswered
 
INVARIANT OutcomeMatchesSteps
PROPERTY GenerationEnds
